---------------------------- MODULE Spec2Model ----------------------------
(***************************************************************************)
(* Device Connection Manager (d_analog.c): the per-port detection state    *)
(* machines of the input and output ports, the legacy colour sensor        *)
(* communication engine they start and stop, and the end-of-pass logic of  *)
(* the ADC scan scheduler.                                                 *)
(*                                                                         *)
(* Three specifications share the actions below:                           *)
(*   Spec        the DCM timer, the external command paths and a changing  *)
(*               electrical environment (the colour and ADC timers idle);  *)
(*   SpecLadder  one DCM tick applied to a port whose record and readings  *)
(*               are drawn from sets of boundary values (the decision      *)
(*               ladders as functions of their inputs);                    *)
(*   SpecColor   the DCM timer, the colour timer and the ADC timer with a  *)
(*               device attached from the start and the colour set-up      *)
(*               command of Device3Write.                                  *)
(***************************************************************************)
EXTENDS Integers, Sequences, FiniteSets, TLC

(***************************************************************************)
(* Program constants                                                       *)
(***************************************************************************)
IN_CONNECT_STEADY_TIME == 350
IN_DISCONNECT_STEADY_TIME == 100
IN1_NEAR_5V == 4800
IN1_NEAR_PIN2 == 3100
IN1_TOUCH_HIGH == 950
IN1_TOUCH_LOW == 850
IN1_NEAR_GND == 100
OUT5_IIC_HIGH == 3700
OUT5_IIC_LOW == 2800
OUT5_BALANCE_HIGH == 2600
OUT5_BALANCE_LOW == 2400
OUT5_LIGHT_HIGH == 850
OUT5_LIGHT_LOW == 650
OUT5_NEAR_GND == 100
OUT5_DUMP_HIGH == 2350
OUT5_DUMP_LOW == 1150
OUT5_MINITACHO_HIGH1 == 2000
OUT5_MINITACHO_LOW1 == 1600
OUT5_NEWTACHO_HIGH1 == 1600
OUT5_NEWTACHO_LOW1 == 1200
OUT5_INTELLIGENT_HIGH2 == 1150
OUT5_INTELLIGENT_LOW2 == 850
OUT5_NEWTACHO_HIGH2 == 650
OUT5_NEWTACHO_LOW2 == 450
OUT5_MINITACHO_HIGH2 == 450
OUT5_MINITACHO_LOW2 == 250
DCM_TIMER_RESOLUTION == 10
DCM_DEVICE_RESET_TIME == 2000
DCM_FLOAT_DELAY == 20
DCM_LOW_DELAY == 20
DCM_TOUCH_DELAY == 20
DCM_CONNECT_STABLE_DELAY == IN_CONNECT_STEADY_TIME
DCM_EVENT_STABLE_DELAY == IN_DISCONNECT_STEADY_TIME
DCM_NXT_COLOR_TIMEOUT == 500
DCM_NXT_COLOR_INIT_DELAY == 100
NXTCOLOR_TIMER_RESOLUTION == 200
NXTCOLOR_BYTES == 12 * 4 + 3 * 2
SCHEMESIZE1 == 10
SCHEMESIZE2 == 15
INPUTADCPORTS == 12
INPUTADCPOWERS == 4
INPUTADC == INPUTADCPORTS + INPUTADCPOWERS

\* INPUTS / OUTPUTS, the ADC reference [mV] and resolution [counts] come from
\* lms2012.h, which d_analog.c includes.
INPUTS == 4
OUTPUTS == 4
ADC_REF == 5000
ADC_RES == 4095
\* depth of the pin 1 / pin 6 sample rings (lms2012.h)
DEVICE_LOGBUF_SIZE == 300

\* enum InputPortPins / OutputPortPins: the bit numbers of the event masks
INPUT_PORT_PIN2 == 1
INPUT_PORT_PIN5 == 2
INPUT_PORT_PIN6 == 3
INPUT_PORT_VALUE == 6
OUTPUT_PORT_PIN6 == 4
OUTPUT_PORT_VALUE == 6

InPorts == 0 .. (INPUTS - 1)
OutPorts == 0 .. (OUTPUTS - 1)
BufIdx == 0 .. (NXTCOLOR_BYTES - 1)

(***************************************************************************)
(* Bounds of the model                                                     *)
(***************************************************************************)
\* how often the electrical environment may change in one behaviour
MaxEnvChanges == 2
\* how many writes / ioctls the external command paths may issue
MaxCmds == 1
\* how many DCM ticks follow a drawn ladder input (SpecLadder)
MaxLadderTicks == 2
\* how many colour set-up commands Device3Write receives (SpecColor)
MaxColorCmds == 2
\* the last DCM tick a colour set-up command may precede (SpecColor)
MaxStartTick == 1
\* how many DCM ticks a behaviour of SpecColor and SpecCancel covers
MaxDcmTicks == 46
\* how many writes / ioctls the command paths may issue (SpecManual)
MaxManualCmds == 2
\* how many commands Device1Write, Device2Ioctl and Device3Write receive
\* together (SpecCancel)
MaxCancelCmds == 2

(***************************************************************************)
(* Integer helpers                                                         *)
(***************************************************************************)
RECURSIVE Pow2(_)
Pow2(n) == IF n = 0 THEN 1 ELSE 2 * Pow2(n - 1)

\* (x & (0x01 << b)) != 0
Bit(x, b) == (x \div Pow2(b)) % 2 = 1

\* x |= (0x01 << b)
SetBit(x, b) == IF Bit(x, b) THEN x ELSE x + Pow2(b)

\* ++x on a UBYTE
Inc8(x) == (x + 1) % 256

\* VtoC / CtoV of lms2012.h: millivolts to ADC counts and back (UWORD division)
VtoC(V) == (V * ADC_RES) \div ADC_REF
CtoV(C) == (C * ADC_REF) \div ADC_RES

Min(a, b) == IF a < b THEN a ELSE b


(***************************************************************************)
(* State                                                                   *)
(***************************************************************************)
VARIABLES
  InputPort,          \* INPORT InputPort[]: Value, Connected, Cmd, State, Event, Timer, FSMEnabled
  OutputPort,         \* OUTPORT OutputPort[]: Value5Float, Value5Low, Connected, State, Event, Timer
  pAnalog,            \* the shared ANALOG record (results table)
  Device3State,       \* start-up sequencer of the DCM timer
  Device3StateTimer,
  TestMode,
  InputPortPin,       \* drive state of the input port pins 5, 6 and buffer enable
  OutputPortPin,      \* drive state of the output port pins 1, 2, 5W and 6
  NxtColor,           \* per port: the NxtColorState .. NxtColorInitCnt statics
  NxtColorBuffer,
  NxtColorInitInUse,  \* set of ports holding the colour timer
  NxtColorTimerOn,    \* hrtimer NxtColorTimer is started
  NxtColorActive,
  Nxtcolor,
  NxtcolorCmd,
  NxtcolorLatchedCmd,
  Color,
  NxtPointer,
  InputPoint1,
  InputPoint2,
  NextTime,           \* delay the ADC timer is forwarded by [us]
  envIn,              \* what is attached to each input port (electrical levels)
  envOut,             \* what is attached to each output port
  budget,             \* environment changes and commands still allowed
  hist                \* history variables the properties are stated with

vars == << InputPort, OutputPort, pAnalog, Device3State, Device3StateTimer, TestMode,
           InputPortPin, OutputPortPin, NxtColor, NxtColorBuffer, NxtColorInitInUse,
           NxtColorTimerOn, NxtColorActive, Nxtcolor, NxtcolorCmd, NxtcolorLatchedCmd,
           Color, NxtPointer, InputPoint1, InputPoint2, NextTime, envIn, envOut, budget,
           hist >>

\* The program state as one record, so that a handler is a function on it.
Prog == [ InputPort |-> InputPort, OutputPort |-> OutputPort, pAnalog |-> pAnalog,
          Device3State |-> Device3State, Device3StateTimer |-> Device3StateTimer,
          TestMode |-> TestMode, InputPortPin |-> InputPortPin,
          OutputPortPin |-> OutputPortPin, NxtColor |-> NxtColor,
          NxtColorBuffer |-> NxtColorBuffer, NxtColorInitInUse |-> NxtColorInitInUse,
          NxtColorTimerOn |-> NxtColorTimerOn, NxtColorActive |-> NxtColorActive,
          Nxtcolor |-> Nxtcolor, NxtcolorCmd |-> NxtcolorCmd,
          NxtcolorLatchedCmd |-> NxtcolorLatchedCmd, Color |-> Color,
          NxtPointer |-> NxtPointer, InputPoint1 |-> InputPoint1,
          InputPoint2 |-> InputPoint2, NextTime |-> NextTime ]

\* the next program state is the record r
Becomes(r) ==
  /\ InputPort' = r.InputPort
  /\ OutputPort' = r.OutputPort
  /\ pAnalog' = r.pAnalog
  /\ Device3State' = r.Device3State
  /\ Device3StateTimer' = r.Device3StateTimer
  /\ TestMode' = r.TestMode
  /\ InputPortPin' = r.InputPortPin
  /\ OutputPortPin' = r.OutputPortPin
  /\ NxtColor' = r.NxtColor
  /\ NxtColorBuffer' = r.NxtColorBuffer
  /\ NxtColorInitInUse' = r.NxtColorInitInUse
  /\ NxtColorTimerOn' = r.NxtColorTimerOn
  /\ NxtColorActive' = r.NxtColorActive
  /\ Nxtcolor' = r.Nxtcolor
  /\ NxtcolorCmd' = r.NxtcolorCmd
  /\ NxtcolorLatchedCmd' = r.NxtcolorLatchedCmd
  /\ Color' = r.Color
  /\ NxtPointer' = r.NxtPointer
  /\ InputPoint1' = r.InputPoint1
  /\ InputPoint2' = r.InputPoint2
  /\ NextTime' = r.NextTime

(***************************************************************************)
(* Pins and readings                                                       *)
(***************************************************************************)
\* PINRead: a pin the program drives reads back as driven, a floating pin
\* reads what the attached device puts on it
Level(drive, ext) == IF drive = "float" THEN ext ELSE IF drive = "high" THEN 1 ELSE 0

PINRead5(s, Port) == Level(s.InputPortPin[Port].Pin5, envIn[Port].pin5)
PINRead6(s, Port) == Level(s.InputPortPin[Port].Pin6, envIn[Port].pin6)
POUTRead6(s, Port) == Level(s.OutputPortPin[Port].Pin6, envOut[Port].pin6)

\* (*pAnalog).InPin1[Port]: the latest ADC sample of input pin 1 [counts]
InPin1(Port) == envIn[Port].pin1

\* (*pAnalog).OutPin5[Port]: the latest ADC sample of output pin 5 [counts];
\* the attached device answers differently while pin 5 is driven (active probe)
OutPin5(s, Port) ==
  IF s.OutputPortPin[Port].Pin5W = "high" THEN envOut[Port].v5p ELSE envOut[Port].v5

InputPortFloat(s, Port) ==
  [s EXCEPT !.InputPortPin[Port] = [Pin5 |-> "float", Pin6 |-> "float", Buf |-> "high"]]

OutputPortFloat(s, Port) ==
  [s EXCEPT !.OutputPortPin[Port] =
              [Pin1 |-> "low", Pin2 |-> "low", Pin5W |-> "low", Pin6 |-> "float"]]

(***************************************************************************)
(* Colour session start / stop / ready                                     *)
(***************************************************************************)
NxtColorCommStart(s, Port, Cmd) ==
  [s EXCEPT !.NxtColor[Port].State = 1,
            !.NxtColor[Port].InitCnt = 0,
            !.NxtColor[Port].BytePnt = 0,
            !.NxtColor[Port].ByteCnt = 0,
            !.NxtColor[Port].BitCnt = 0,
            !.NxtColor[Port].Cmd = Cmd,
            !.NxtColorTimerOn = IF s.NxtColorInitInUse = {} THEN TRUE ELSE @,
            !.NxtColorInitInUse = @ \cup {Port}]

NxtColorCommReady(s, Port) == s.NxtColor[Port].State = 0

\* variant: the timer is cancelled whenever a session is stopped
NxtColorCommStopAlways(s, Port) ==
  [s EXCEPT !.NxtColorInitInUse = @ \ {Port},
            !.NxtColorTimerOn = FALSE,
            !.NxtColor[Port].State = 0]

NxtColorCommStop(s, Port) ==
  [s EXCEPT !.NxtColorInitInUse = @ \ {Port},
            !.NxtColorTimerOn = IF s.NxtColorInitInUse \ {Port} = {} THEN FALSE ELSE @,
            !.NxtColor[Port].State = 0]

(***************************************************************************)
(* Input port DCM: one case of the switch per operator                     *)
(***************************************************************************)
ConnectStableTicks == DCM_CONNECT_STABLE_DELAY \div DCM_TIMER_RESOLUTION
EventStableTicks == DCM_EVENT_STABLE_DELAY \div DCM_TIMER_RESOLUTION
FloatDelayTicks == DCM_FLOAT_DELAY \div DCM_TIMER_RESOLUTION
\* variant: the low delay one tick longer
LowDelayTicksLate == DCM_LOW_DELAY \div DCM_TIMER_RESOLUTION + 1
LowDelayTicks == DCM_LOW_DELAY \div DCM_TIMER_RESOLUTION
TouchDelayTicks == DCM_TOUCH_DELAY \div DCM_TIMER_RESOLUTION
ColorTimeoutTicks == DCM_NXT_COLOR_TIMEOUT \div DCM_TIMER_RESOLUTION

SetIn(s, Port, Type, Conn) ==
  [s EXCEPT !.pAnalog.InDcm[Port] = Type, !.pAnalog.InConn[Port] = Conn]

In_DCM_INIT(s, Port) ==
  LET s1 == NxtColorCommStop([s EXCEPT !.NxtColorActive[Port] = 0], Port)
      s2 == SetIn(InputPortFloat(s1, Port), Port, "TYPE_NONE", "CONN_NONE")
  IN  [s2 EXCEPT !.InputPort[Port].Timer = 0,
                 !.InputPort[Port].Event = 0,
                 !.InputPort[Port].State = "DCM_FLOATING_DELAY"]

In_DCM_FLOATING_DELAY(s, Port) ==
  LET t == Inc8(s.InputPort[Port].Timer)
  IN  IF t >= FloatDelayTicks
      THEN [s EXCEPT !.InputPort[Port].Timer = 0,
                     !.InputPort[Port].State = "DCM_FLOATING"]
      ELSE [s EXCEPT !.InputPort[Port].Timer = t]

\* the pin 2 test is compiled as "if (!1)": its bit is never set
InFloatingEvent(s, Port) ==
  LET e1 == IF InPin1(Port) < VtoC(IN1_NEAR_5V) THEN SetBit(0, INPUT_PORT_VALUE) ELSE 0
      e2 == IF PINRead5(s, Port) = 0 THEN SetBit(e1, INPUT_PORT_PIN5) ELSE e1
  IN  IF PINRead6(s, Port) # 0 THEN SetBit(e2, INPUT_PORT_PIN6) ELSE e2

\* variant: a changed mask is stored but the debounce timer keeps running
In_DCM_FLOATING_NoRestart(s, Port) ==
  LET Event == InFloatingEvent(s, Port)
      s1 == [s EXCEPT !.InputPort[Port].Event = Event]
      t == Inc8(s1.InputPort[Port].Timer)
  IN  IF s1.InputPort[Port].Event # 0
      THEN IF t >= ConnectStableTicks
           THEN [s1 EXCEPT !.InputPort[Port].Timer = t,
                           !.InputPort[Port].State = "DCM_CONNECTION"]
           ELSE [s1 EXCEPT !.InputPort[Port].Timer = t]
      ELSE s1

In_DCM_FLOATING(s, Port) ==
  LET Event == InFloatingEvent(s, Port)
      s1 == IF s.InputPort[Port].Event # Event
            THEN [s EXCEPT !.InputPort[Port].Event = Event,
                           !.InputPort[Port].Timer = 0]
            ELSE s
      t == Inc8(s1.InputPort[Port].Timer)
  IN  IF s1.InputPort[Port].Event # 0
      THEN IF t >= ConnectStableTicks
           THEN [s1 EXCEPT !.InputPort[Port].Timer = t,
                           !.InputPort[Port].State = "DCM_CONNECTION"]
           ELSE [s1 EXCEPT !.InputPort[Port].Timer = t]
      ELSE s1

\* variant: pin 6 high tested before pin 1 loaded
InConnectionNextPin6First(Event) ==
  IF Bit(Event, INPUT_PORT_PIN2) THEN "DCM_PIN2_LOW"
  ELSE IF Bit(Event, INPUT_PORT_PIN6) THEN "DCM_PIN6_HIGH"
  ELSE IF Bit(Event, INPUT_PORT_VALUE) THEN "DCM_PIN1_LOADED"
  ELSE IF Bit(Event, INPUT_PORT_PIN5) THEN "DCM_PIN5_LOW"
  ELSE "DCM_INIT"

\* the priority ladder of DCM_CONNECTION
InConnectionNext(Event) ==
  IF Bit(Event, INPUT_PORT_PIN2) THEN "DCM_PIN2_LOW"
  ELSE IF Bit(Event, INPUT_PORT_VALUE) THEN "DCM_PIN1_LOADED"
  ELSE IF Bit(Event, INPUT_PORT_PIN6) THEN "DCM_PIN6_HIGH"
  ELSE IF Bit(Event, INPUT_PORT_PIN5) THEN "DCM_PIN5_LOW"
  ELSE "DCM_INIT"

In_DCM_CONNECTION(s, Port) ==
  [s EXCEPT !.InputPort[Port].State = InConnectionNext(s.InputPort[Port].Event),
            !.pAnalog.Actual[Port] = 0,
            !.pAnalog.LogIn[Port] = 0,
            !.pAnalog.LogOut[Port] = 0]

\* variant: the two touch limits belong to the band
InTouchBandInclusive(v) == v >= VtoC(IN1_TOUCH_LOW) /\ v <= VtoC(IN1_TOUCH_HIGH)

\* pin 1 between the two touch limits: candidate for the touch / sound check
InTouchBand(v) == v > VtoC(IN1_TOUCH_LOW) /\ v < VtoC(IN1_TOUCH_HIGH)

In_DCM_PIN2_LOW(s, Port) ==
  LET Event == s.InputPort[Port].Event
      v == InPin1(Port)
      s1 == [InputPortFloat(s, Port) EXCEPT
               !.InputPort[Port].Connected = 1,
               !.InputPort[Port].Timer = 0,
               !.InputPort[Port].State = "DCM_CONNECTED_WAITING_FOR_PIN2_HIGH"]
      color == [SetIn(s1, Port, "TYPE_NXT_COLOR", "CONN_NXT_COLOR") EXCEPT
                  !.InputPort[Port].State = "DCM_NXT_COLOR_INIT"]
  IN  IF ~Bit(Event, INPUT_PORT_PIN5) /\ Bit(Event, INPUT_PORT_PIN6)
      THEN IF v < VtoC(IN1_NEAR_GND)
           THEN color
           ELSE SetIn(s1, Port, "TYPE_NXT_IIC", "CONN_NXT_IIC")
      ELSE IF Bit(Event, INPUT_PORT_PIN5)
      THEN IF Bit(Event, INPUT_PORT_PIN6)
           THEN SetIn(s1, Port, "TYPE_NXT_TEST", "CONN_NXT_DUMB")
           ELSE SetIn(s1, Port, "TYPE_NXT_LIGHT", "CONN_NXT_DUMB")
      ELSE IF v < VtoC(IN1_NEAR_GND)
      THEN color
      ELSE IF v > VtoC(IN1_NEAR_5V)
      THEN SetIn(s1, Port, "TYPE_NXT_TOUCH", "CONN_NXT_DUMB")
      ELSE IF InTouchBand(v)
      THEN [s1 EXCEPT !.InputPort[Port].Timer = 0,
                      !.InputPort[Port].Value = v,
                      !.InputPort[Port].State = "DCM_NXT_TOUCH_CHECK"]
      ELSE SetIn(s1, Port, "TYPE_NXT_SOUND", "CONN_NXT_DUMB")

\* Value - 10 is computed in int, Value + 10 likewise (UWORD promoted to int)
In_DCM_NXT_TOUCH_CHECK(s, Port) ==
  LET t == Inc8(s.InputPort[Port].Timer)
      v == InPin1(Port)
      s1 == [s EXCEPT !.InputPort[Port].Timer = t]
  IN  IF t >= TouchDelayTicks
      THEN LET s2 == [s1 EXCEPT !.InputPort[Port].State =
                                   "DCM_CONNECTED_WAITING_FOR_PIN2_HIGH"]
           IN  IF v > s.InputPort[Port].Value - 10 /\ v < s.InputPort[Port].Value + 10
               THEN SetIn(s2, Port, "TYPE_NXT_TOUCH", "CONN_NXT_DUMB")
               ELSE SetIn(s2, Port, "TYPE_NXT_SOUND", "CONN_NXT_DUMB")
      ELSE s1

\* variant: the colour command of the port is not cleared
In_DCM_NXT_COLOR_INIT_KeepCmd(s, Port) ==
  [NxtColorCommStop(s, Port) EXCEPT !.InputPort[Port].Timer = 0,
                                    !.InputPort[Port].State = "DCM_NXT_COLOR_WAIT"]

In_DCM_NXT_COLOR_INIT(s, Port) ==
  LET s1 == NxtColorCommStop([s EXCEPT !.NxtcolorCmd[Port] = 0], Port)
  IN  [s1 EXCEPT !.InputPort[Port].Timer = 0,
                 !.InputPort[Port].State = "DCM_NXT_COLOR_WAIT"]

\* variant: the port is marked colour-active when its session is started
In_DCM_NXT_COLOR_WAIT_Marking(s, Port) ==
  IF s.NxtcolorCmd[Port] = s.NxtcolorLatchedCmd[Port]
  THEN [NxtColorCommStart(s, Port, s.InputPort[Port].Cmd) EXCEPT
          !.InputPort[Port].State = "DCM_NXT_COLOR_BUSY",
          !.NxtColorActive[Port] = 1]
  ELSE s

In_DCM_NXT_COLOR_WAIT(s, Port) ==
  IF s.NxtcolorCmd[Port] = s.NxtcolorLatchedCmd[Port]
  THEN [NxtColorCommStart(s, Port, s.InputPort[Port].Cmd) EXCEPT
          !.InputPort[Port].State = "DCM_NXT_COLOR_BUSY"]
  ELSE s

\* variant: the copy loop stops one byte early
CopyColorBufferShort(s, Port) ==
  [s EXCEPT !.pAnalog.NxtCol[Port] =
     [Tmp \in BufIdx |-> IF Tmp < NXTCOLOR_BYTES - 1
                         THEN s.NxtColorBuffer[Port][Tmp] ELSE @[Tmp]]]

\* the copy loop of the ready branch: NXTCOLOR_BYTES bytes, index by index
CopyColorBuffer(s, Port) ==
  [s EXCEPT !.pAnalog.NxtCol[Port] = [Tmp \in BufIdx |-> s.NxtColorBuffer[Port][Tmp]]]

\* variant: the timeout branch copies the session buffer as the ready branch
In_DCM_NXT_COLOR_BUSY_CopyOnTimeout(s, Port) ==
  LET s1 == IF NxtColorCommReady(s, Port)
            THEN LET a == [s EXCEPT !.NxtcolorCmd[Port] = s.InputPort[Port].Cmd,
                                    !.InputPort[Port].Timer = 0,
                                    !.InputPort[Port].State =
                                       "DCM_CONNECTED_WAITING_FOR_PIN2_HIGH"]
                     b == NxtColorCommStop(CopyColorBuffer(a, Port), Port)
                 IN  [b EXCEPT !.NxtColorActive[Port] = 1]
            ELSE s
      t == Inc8(s1.InputPort[Port].Timer)
  IN  IF t > ColorTimeoutTicks
      THEN NxtColorCommStop(CopyColorBuffer(
             [s1 EXCEPT !.InputPort[Port].Timer = 0,
                        !.InputPort[Port].State =
                           "DCM_CONNECTED_WAITING_FOR_PIN2_HIGH"], Port), Port)
      ELSE [s1 EXCEPT !.InputPort[Port].Timer = t]

In_DCM_NXT_COLOR_BUSY(s, Port) ==
  LET s1 == IF NxtColorCommReady(s, Port)
            THEN LET a == [s EXCEPT !.NxtcolorCmd[Port] = s.InputPort[Port].Cmd,
                                    !.InputPort[Port].Timer = 0,
                                    !.InputPort[Port].State =
                                       "DCM_CONNECTED_WAITING_FOR_PIN2_HIGH"]
                     b == NxtColorCommStop(CopyColorBuffer(a, Port), Port)
                 IN  [b EXCEPT !.NxtColorActive[Port] = 1]
            ELSE s
      t == Inc8(s1.InputPort[Port].Timer)
  IN  IF t > ColorTimeoutTicks
      THEN NxtColorCommStop([s1 EXCEPT !.InputPort[Port].Timer = 0,
                                       !.InputPort[Port].State =
                                          "DCM_CONNECTED_WAITING_FOR_PIN2_HIGH"], Port)
      ELSE [s1 EXCEPT !.InputPort[Port].Timer = t]

\* variant: a tick on which the release condition fails leaves the timer
InWaitReleaseNoRestart(s, Port, Cond) ==
  LET t == Inc8(s.InputPort[Port].Timer)
  IN  IF Cond
      THEN IF t >= EventStableTicks
           THEN [s EXCEPT !.InputPort[Port].Timer = t,
                          !.InputPort[Port].Connected = 0,
                          !.InputPort[Port].State = "DCM_INIT"]
           ELSE [s EXCEPT !.InputPort[Port].Timer = t]
      ELSE s

\* the release test of the four input wait states; Cond is the release condition
InWaitRelease(s, Port, Cond) ==
  LET t == Inc8(s.InputPort[Port].Timer)
  IN  IF Cond
      THEN IF t >= EventStableTicks
           THEN [s EXCEPT !.InputPort[Port].Timer = t,
                          !.InputPort[Port].Connected = 0,
                          !.InputPort[Port].State = "DCM_INIT"]
           ELSE [s EXCEPT !.InputPort[Port].Timer = t]
      ELSE [s EXCEPT !.InputPort[Port].Timer = 0]

\* the pin 2 test is compiled as "if (1)"
In_DCM_CONNECTED_WAITING_FOR_PIN2_HIGH(s, Port) == InWaitRelease(s, Port, TRUE)

\* variant: a reading equal to the IN1_NEAR_PIN2 threshold is an Error too
In_DCM_PIN1_LOADED_Inclusive(s, Port) ==
  LET v == InPin1(Port)
      s1 == IF v >= VtoC(IN1_NEAR_PIN2)
            THEN SetIn(s, Port, "TYPE_ERROR", "CONN_ERROR")
            ELSE IF v < VtoC(IN1_NEAR_GND)
            THEN SetIn(s, Port, "TYPE_UNKNOWN", "CONN_INPUT_UART")
            ELSE SetIn(s, Port, "TYPE_UNKNOWN", "CONN_INPUT_DUMB")
  IN  [s1 EXCEPT !.InputPort[Port].Connected = 1,
                 !.InputPort[Port].Timer = 0,
                 !.InputPort[Port].State = "DCM_CONNECTED_WAITING_FOR_PIN1_TO_FLOAT"]

In_DCM_PIN1_LOADED(s, Port) ==
  LET v == InPin1(Port)
      s1 == IF v > VtoC(IN1_NEAR_PIN2)
            THEN SetIn(s, Port, "TYPE_ERROR", "CONN_ERROR")
            ELSE IF v < VtoC(IN1_NEAR_GND)
            THEN SetIn(s, Port, "TYPE_UNKNOWN", "CONN_INPUT_UART")
            ELSE SetIn(s, Port, "TYPE_UNKNOWN", "CONN_INPUT_DUMB")
  IN  [s1 EXCEPT !.InputPort[Port].Connected = 1,
                 !.InputPort[Port].Timer = 0,
                 !.InputPort[Port].State = "DCM_CONNECTED_WAITING_FOR_PIN1_TO_FLOAT"]

In_DCM_CONNECTED_WAITING_FOR_PIN1_TO_FLOAT(s, Port) ==
  InWaitRelease(s, Port, InPin1(Port) > VtoC(IN1_NEAR_5V))

In_DCM_PIN6_HIGH(s, Port) ==
  [SetIn(s, Port, "TYPE_NXT_IIC", "CONN_NXT_IIC") EXCEPT
     !.InputPort[Port].Connected = 1,
     !.InputPort[Port].Timer = 0,
     !.InputPort[Port].State = "DCM_CONNECTED_WAITING_FOR_PIN6_LOW"]

In_DCM_CONNECTED_WAITING_FOR_PIN6_LOW(s, Port) ==
  InWaitRelease(s, Port, PINRead6(s, Port) = 0)

In_DCM_PIN5_LOW(s, Port) ==
  [SetIn(s, Port, "TYPE_ERROR", "CONN_ERROR") EXCEPT
     !.InputPort[Port].Connected = 1,
     !.InputPort[Port].Timer = 0,
     !.InputPort[Port].State = "DCM_CONNECTED_WAITING_FOR_PIN5_HIGH"]

In_DCM_CONNECTED_WAITING_FOR_PIN5_HIGH(s, Port) ==
  InWaitRelease(s, Port, PINRead5(s, Port) # 0)

\* variant: Disabled leaves Connected as it finds it
In_DCM_DISABLED_NoConnect(s, Port) ==
  IF s.InputPort[Port].FSMEnabled = 0
  THEN [s EXCEPT !.InputPort[Port].Timer = 0]
  ELSE [s EXCEPT !.InputPort[Port].State = "DCM_INIT"]

In_DCM_DISABLED(s, Port) ==
  IF s.InputPort[Port].FSMEnabled = 0
  THEN [s EXCEPT !.InputPort[Port].Timer = 0, !.InputPort[Port].Connected = 1]
  ELSE [s EXCEPT !.InputPort[Port].State = "DCM_INIT"]

\* one input port in the default branch of Device3TimerInterrupt1
InputPortTick(s, Port) ==
  LET s0 == IF s.InputPort[Port].FSMEnabled = 0
            THEN [s EXCEPT !.InputPort[Port].State = "DCM_DISABLED"]
            ELSE s
      State == s0.InputPort[Port].State
  IN  CASE State = "DCM_INIT" -> In_DCM_INIT(s0, Port)
        [] State = "DCM_FLOATING_DELAY" -> In_DCM_FLOATING_DELAY(s0, Port)
        [] State = "DCM_FLOATING" -> In_DCM_FLOATING(s0, Port)
        [] State = "DCM_CONNECTION" -> In_DCM_CONNECTION(s0, Port)
        [] State = "DCM_PIN2_LOW" -> In_DCM_PIN2_LOW(s0, Port)
        [] State = "DCM_NXT_TOUCH_CHECK" -> In_DCM_NXT_TOUCH_CHECK(s0, Port)
        [] State = "DCM_NXT_COLOR_INIT" -> In_DCM_NXT_COLOR_INIT(s0, Port)
        [] State = "DCM_NXT_COLOR_WAIT" -> In_DCM_NXT_COLOR_WAIT(s0, Port)
        [] State = "DCM_NXT_COLOR_BUSY" -> In_DCM_NXT_COLOR_BUSY(s0, Port)
        [] State = "DCM_CONNECTED_WAITING_FOR_PIN2_HIGH" ->
             In_DCM_CONNECTED_WAITING_FOR_PIN2_HIGH(s0, Port)
        [] State = "DCM_PIN1_LOADED" -> In_DCM_PIN1_LOADED(s0, Port)
        [] State = "DCM_CONNECTED_WAITING_FOR_PIN1_TO_FLOAT" ->
             In_DCM_CONNECTED_WAITING_FOR_PIN1_TO_FLOAT(s0, Port)
        [] State = "DCM_PIN6_HIGH" -> In_DCM_PIN6_HIGH(s0, Port)
        [] State = "DCM_CONNECTED_WAITING_FOR_PIN6_LOW" ->
             In_DCM_CONNECTED_WAITING_FOR_PIN6_LOW(s0, Port)
        [] State = "DCM_PIN5_LOW" -> In_DCM_PIN5_LOW(s0, Port)
        [] State = "DCM_CONNECTED_WAITING_FOR_PIN5_HIGH" ->
             In_DCM_CONNECTED_WAITING_FOR_PIN5_HIGH(s0, Port)
        [] State = "DCM_DISABLED" -> In_DCM_DISABLED(s0, Port)
        [] OTHER -> [s0 EXCEPT !.InputPort[Port].State = "DCM_INIT"]

(***************************************************************************)
(* Output port DCM                                                         *)
(***************************************************************************)
SetOut(s, Port, Type, Conn) ==
  [s EXCEPT !.pAnalog.OutDcm[Port] = Type, !.pAnalog.OutConn[Port] = Conn]

Out_DCM_INIT(s, Port) ==
  [SetOut(OutputPortFloat(s, Port), Port, "TYPE_NONE", "CONN_NONE") EXCEPT
     !.OutputPort[Port].Timer = 0,
     !.OutputPort[Port].Event = 0,
     !.OutputPort[Port].State = "DCM_FLOATING_DELAY"]

Out_DCM_FLOATING_DELAY(s, Port) ==
  LET t == Inc8(s.OutputPort[Port].Timer)
  IN  IF t >= FloatDelayTicks
      THEN [s EXCEPT !.OutputPort[Port].Timer = 0,
                     !.OutputPort[Port].State = "DCM_FLOATING"]
      ELSE [s EXCEPT !.OutputPort[Port].Timer = t]

\* pin 5 outside the balance band (in counts)
OutOfBalance(c) == c < VtoC(OUT5_BALANCE_LOW) \/ c > VtoC(OUT5_BALANCE_HIGH)

OutFloatingEvent(s, Port) ==
  LET e1 == IF POUTRead6(s, Port) = 0 THEN SetBit(0, OUTPUT_PORT_PIN6) ELSE 0
  IN  IF OutOfBalance(OutPin5(s, Port)) THEN SetBit(e1, OUTPUT_PORT_VALUE) ELSE e1

Out_DCM_FLOATING(s, Port) ==
  LET Event == OutFloatingEvent(s, Port)
      s1 == IF s.OutputPort[Port].Event # Event
            THEN [s EXCEPT !.OutputPort[Port].Event = Event,
                           !.OutputPort[Port].Timer = 0]
            ELSE s
      t == Inc8(s1.OutputPort[Port].Timer)
  IN  IF s1.OutputPort[Port].Event # 0
      THEN IF t >= ConnectStableTicks
           THEN [s1 EXCEPT !.OutputPort[Port].Value5Float = CtoV(OutPin5(s, Port)),
                           !.OutputPort[Port].Timer = 0,
                           !.OutputPort[Port].State = "DCM_WAITING_FOR_PIN6_LOW",
                           !.OutputPortPin[Port].Pin6 = "float"]
           ELSE [s1 EXCEPT !.OutputPort[Port].Timer = t]
      ELSE s1

Out_DCM_WAITING_FOR_PIN6_LOW(s, Port) ==
  LET t == Inc8(s.OutputPort[Port].Timer)
  IN  IF t >= LowDelayTicks
      THEN [s EXCEPT !.OutputPort[Port].Timer = t,
                     !.OutputPort[Port].Value5Low = CtoV(OutPin5(s, Port)),
                     !.OutputPort[Port].State = "DCM_CONNECTION",
                     !.OutputPortPin[Port].Pin6 = "float"]
      ELSE [s EXCEPT !.OutputPort[Port].Timer = t]

\* variant: a difference of exactly 50 still counts as equal
Value5EqualInclusive(Value5Float, Value5Low) ==
  LET Tmp == (ADC_REF + Value5Float - Value5Low) % 65536
  IN  Tmp >= ADC_REF - 50 /\ Tmp <= ADC_REF + 50

\* Tmp = ADC_REF + Value5Float - Value5Low in a UWORD, then the tolerance test
Value5Equal(Value5Float, Value5Low) ==
  LET Tmp == (ADC_REF + Value5Float - Value5Low) % 65536
  IN  Tmp > ADC_REF - 50 /\ Tmp < ADC_REF + 50

\* the not-equal branch: the low snapshot against the new actuator band
InNewActuatorBand(Value5Low) == Value5Low > OUT5_NEAR_GND /\ Value5Low < OUT5_BALANCE_LOW

\* variant: the port is declared Connected and the pair is left as it was
OutConnectedNoPair(s, Port, Type, Conn) ==
  [s EXCEPT !.OutputPort[Port].Connected = 1]

OutConnected(s, Port, Type, Conn) ==
  [SetOut(s, Port, Type, Conn) EXCEPT !.OutputPort[Port].Connected = 1]

\* variant: a floating snapshot at or above the balance band is classified as
\* a tacho motor at once, without the active probe
OutDirectLadderNoProbe(s, Port) ==
  OutConnected(s, Port, "TYPE_TACHO", "CONN_OUTPUT_TACHO")

\* variant: the probe is taken by the band below the tacho sub-bands, and a
\* floating snapshot at or above the balance band is a tacho motor at once
OutDirectLadderProbeBelow(s, Port) ==
  LET F == s.OutputPort[Port].Value5Float
  IN  IF F >= OUT5_BALANCE_LOW /\ F <= OUT5_BALANCE_HIGH
         /\ Bit(s.OutputPort[Port].Event, OUTPUT_PORT_PIN6)
      THEN OutConnected(s, Port, "TYPE_ERROR", "CONN_ERROR")
      ELSE IF F < OUT5_NEAR_GND
      THEN OutConnected(s, Port, "TYPE_ERROR", "CONN_ERROR")
      ELSE IF F >= OUT5_LIGHT_LOW /\ F <= OUT5_LIGHT_HIGH
      THEN OutConnected(s, Port, "TYPE_ERROR", "CONN_ERROR")
      ELSE IF F >= OUT5_IIC_LOW /\ F <= OUT5_IIC_HIGH
      THEN OutConnected(s, Port, "TYPE_ERROR", "CONN_ERROR")
      ELSE IF F < OUT5_BALANCE_LOW
      THEN IF F >= OUT5_DUMP_LOW /\ F < OUT5_DUMP_HIGH
           THEN OutConnected([s EXCEPT !.pAnalog.OutPin5Low[Port] = F], Port,
                             "TYPE_UNKNOWN", "CONN_OUTPUT_DUMB")
           ELSE IF F >= OUT5_INTELLIGENT_LOW2 /\ F < OUT5_INTELLIGENT_HIGH2
           THEN OutConnected(s, Port, "TYPE_UNKNOWN", "CONN_OUTPUT_INTELLIGENT")
           ELSE IF F >= OUT5_NEWTACHO_LOW2 /\ F < OUT5_NEWTACHO_HIGH2
           THEN OutConnected(s, Port, "TYPE_NEWTACHO", "CONN_OUTPUT_TACHO")
           ELSE IF F >= OUT5_MINITACHO_LOW2 /\ F < OUT5_MINITACHO_HIGH2
           THEN OutConnected(s, Port, "TYPE_MINITACHO", "CONN_OUTPUT_TACHO")
           ELSE [s EXCEPT !.OutputPortPin[Port].Pin5W = "high",
                          !.OutputPort[Port].State = "DCM_WAITING_FOR_PIN5_LOW"]
      ELSE OutConnected(s, Port, "TYPE_TACHO", "CONN_OUTPUT_TACHO")

\* the equal branch: classification by the floating snapshot
OutDirectLadder(s, Port) ==
  LET F == s.OutputPort[Port].Value5Float
  IN  IF F >= OUT5_BALANCE_LOW /\ F <= OUT5_BALANCE_HIGH
         /\ Bit(s.OutputPort[Port].Event, OUTPUT_PORT_PIN6)
      THEN OutConnected(s, Port, "TYPE_ERROR", "CONN_ERROR")
      ELSE IF F < OUT5_NEAR_GND
      THEN OutConnected(s, Port, "TYPE_ERROR", "CONN_ERROR")
      ELSE IF F >= OUT5_LIGHT_LOW /\ F <= OUT5_LIGHT_HIGH
      THEN OutConnected(s, Port, "TYPE_ERROR", "CONN_ERROR")
      ELSE IF F >= OUT5_IIC_LOW /\ F <= OUT5_IIC_HIGH
      THEN OutConnected(s, Port, "TYPE_ERROR", "CONN_ERROR")
      ELSE IF F < OUT5_BALANCE_LOW
      THEN IF F >= OUT5_DUMP_LOW /\ F < OUT5_DUMP_HIGH
           THEN OutConnected([s EXCEPT !.pAnalog.OutPin5Low[Port] = F], Port,
                             "TYPE_UNKNOWN", "CONN_OUTPUT_DUMB")
           ELSE IF F >= OUT5_INTELLIGENT_LOW2 /\ F < OUT5_INTELLIGENT_HIGH2
           THEN OutConnected(s, Port, "TYPE_UNKNOWN", "CONN_OUTPUT_INTELLIGENT")
           ELSE IF F >= OUT5_NEWTACHO_LOW2 /\ F < OUT5_NEWTACHO_HIGH2
           THEN OutConnected(s, Port, "TYPE_NEWTACHO", "CONN_OUTPUT_TACHO")
           ELSE IF F >= OUT5_MINITACHO_LOW2 /\ F < OUT5_MINITACHO_HIGH2
           THEN OutConnected(s, Port, "TYPE_MINITACHO", "CONN_OUTPUT_TACHO")
           ELSE OutConnected(s, Port, "TYPE_TACHO", "CONN_OUTPUT_TACHO")
      ELSE [s EXCEPT !.OutputPortPin[Port].Pin5W = "high",
                     !.OutputPort[Port].State = "DCM_WAITING_FOR_PIN5_LOW"]

Out_DCM_CONNECTION(s, Port) ==
  LET s1 == [s EXCEPT !.OutputPort[Port].State = "DCM_CONNECTED_WAITING_FOR_PORT_OPEN"]
      L == s.OutputPort[Port].Value5Low
      s2 == IF Value5Equal(s.OutputPort[Port].Value5Float, L)
            THEN OutDirectLadder(s1, Port)
            ELSE IF InNewActuatorBand(L)
            THEN OutConnected([s1 EXCEPT !.pAnalog.OutPin5Low[Port] = L], Port,
                              "TYPE_UNKNOWN", "CONN_OUTPUT_DUMB")
            ELSE OutConnected(s1, Port, "TYPE_ERROR", "CONN_ERROR")
  IN  [s2 EXCEPT !.OutputPort[Port].Timer = 0]

\* variant: the table is read with the code stored in the results table
\* (OutPin5Low) instead of the port's Value5Low
OutProbeLadderStoredCode(s, Port) ==
  LET Value5Low == s.pAnalog.OutPin5Low[Port]
  IN  IF Value5Low >= OUT5_NEWTACHO_LOW1 /\ Value5Low < OUT5_NEWTACHO_HIGH1
      THEN SetOut(s, Port, "TYPE_NEWTACHO", "CONN_OUTPUT_TACHO")
      ELSE IF Value5Low >= OUT5_MINITACHO_LOW1 /\ Value5Low < OUT5_MINITACHO_HIGH1
      THEN SetOut(s, Port, "TYPE_MINITACHO", "CONN_OUTPUT_TACHO")
      ELSE SetOut(s, Port, "TYPE_TACHO", "CONN_OUTPUT_TACHO")

\* the second threshold table: the tacho variant from the post-probe voltage
\* just stored in Value5Low
OutProbeLadder(s, Port) ==
  LET Value5Low == s.OutputPort[Port].Value5Low
  IN  IF Value5Low >= OUT5_NEWTACHO_LOW1 /\ Value5Low < OUT5_NEWTACHO_HIGH1
      THEN SetOut(s, Port, "TYPE_NEWTACHO", "CONN_OUTPUT_TACHO")
      ELSE IF Value5Low >= OUT5_MINITACHO_LOW1 /\ Value5Low < OUT5_MINITACHO_HIGH1
      THEN SetOut(s, Port, "TYPE_MINITACHO", "CONN_OUTPUT_TACHO")
      ELSE SetOut(s, Port, "TYPE_TACHO", "CONN_OUTPUT_TACHO")

Out_DCM_WAITING_FOR_PIN5_LOW(s, Port) ==
  LET t == Inc8(s.OutputPort[Port].Timer)
      s1 == [s EXCEPT !.OutputPort[Port].Timer = t,
                      !.OutputPort[Port].Value5Low = CtoV(OutPin5(s, Port)),
                      !.OutputPortPin[Port].Pin5W = "low"]
  IN  IF t >= LowDelayTicks
      THEN [OutProbeLadder(s1, Port) EXCEPT
              !.OutputPort[Port].Connected = 1,
              !.OutputPort[Port].State = "DCM_CONNECTED_WAITING_FOR_PORT_OPEN"]
      ELSE [s EXCEPT !.OutputPort[Port].Timer = t]

Out_DCM_CONNECTED_WAITING_FOR_PORT_OPEN(s, Port) ==
  LET t0 == IF OutOfBalance(OutPin5(s, Port)) \/ POUTRead6(s, Port) = 0
            THEN 0 ELSE s.OutputPort[Port].Timer
      t == Inc8(t0)
  IN  IF t >= EventStableTicks
      THEN [s EXCEPT !.OutputPort[Port].Timer = t,
                     !.OutputPort[Port].Connected = 0,
                     !.OutputPort[Port].State = "DCM_INIT"]
      ELSE [s EXCEPT !.OutputPort[Port].Timer = t]

\* one output port in the default branch of Device3TimerInterrupt1
OutputPortTick(s, Port) ==
  LET State == s.OutputPort[Port].State
  IN  CASE State = "DCM_INIT" -> Out_DCM_INIT(s, Port)
        [] State = "DCM_FLOATING_DELAY" -> Out_DCM_FLOATING_DELAY(s, Port)
        [] State = "DCM_FLOATING" -> Out_DCM_FLOATING(s, Port)
        [] State = "DCM_WAITING_FOR_PIN6_LOW" -> Out_DCM_WAITING_FOR_PIN6_LOW(s, Port)
        [] State = "DCM_CONNECTION" -> Out_DCM_CONNECTION(s, Port)
        [] State = "DCM_WAITING_FOR_PIN5_LOW" -> Out_DCM_WAITING_FOR_PIN5_LOW(s, Port)
        [] State = "DCM_CONNECTED_WAITING_FOR_PORT_OPEN" ->
             Out_DCM_CONNECTED_WAITING_FOR_PORT_OPEN(s, Port)
        [] OTHER -> [s EXCEPT !.OutputPort[Port].State = "DCM_INIT"]

(***************************************************************************)
(* Device3TimerInterrupt1: the DCM tick                                    *)
(***************************************************************************)
RECURSIVE InputPortsFrom(_, _)
InputPortsFrom(s, Port) ==
  IF Port >= INPUTS THEN s ELSE InputPortsFrom(InputPortTick(s, Port), Port + 1)

RECURSIVE OutputPortsFrom(_, _)
OutputPortsFrom(s, Port) ==
  IF Port >= OUTPUTS THEN s ELSE OutputPortsFrom(OutputPortTick(s, Port), Port + 1)

DeviceResetTicks == DCM_DEVICE_RESET_TIME \div DCM_TIMER_RESOLUTION

\* variant: the start-up sequence begins whether or not test mode is on
Device3TickInTestMode(s) ==
  CASE s.Device3State = 0 -> [s EXCEPT !.Device3State = 1]
    [] s.Device3State = 1 ->
         [s EXCEPT !.Device3StateTimer = 0, !.Device3State = 2]
    [] s.Device3State = 2 ->
         IF s.Device3StateTimer + 1 >= DeviceResetTicks
         THEN [s EXCEPT !.Device3StateTimer = @ + 1, !.Device3State = 3]
         ELSE [s EXCEPT !.Device3StateTimer = @ + 1]
    [] OTHER -> OutputPortsFrom(InputPortsFrom(s, 0), 0)

\* variant: the reset delay ends on the first tick of case 2
Device3TickShortReset(s) ==
  CASE s.Device3State = 0 ->
         IF s.TestMode = 0 THEN [s EXCEPT !.Device3State = 1] ELSE s
    [] s.Device3State = 1 ->
         [s EXCEPT !.Device3StateTimer = 0, !.Device3State = 2]
    [] s.Device3State = 2 ->
         [s EXCEPT !.Device3StateTimer = @ + 1, !.Device3State = 3]
    [] OTHER -> OutputPortsFrom(InputPortsFrom(s, 0), 0)

Device3Tick(s) ==
  CASE s.Device3State = 0 ->
         IF s.TestMode = 0 THEN [s EXCEPT !.Device3State = 1] ELSE s
    [] s.Device3State = 1 ->
         [s EXCEPT !.Device3StateTimer = 0, !.Device3State = 2]
    [] s.Device3State = 2 ->
         IF s.Device3StateTimer + 1 >= DeviceResetTicks
         THEN [s EXCEPT !.Device3StateTimer = @ + 1, !.Device3State = 3]
         ELSE [s EXCEPT !.Device3StateTimer = @ + 1]
    [] OTHER -> OutputPortsFrom(InputPortsFrom(s, 0), 0)

(***************************************************************************)
(* The colour sensor communication engine (NxtColorCommIntr, 200 us)       *)
(***************************************************************************)
\* what the attached colour sensor sends: byte i of its payload, port by port
SensorByte(Port, i) == (7 * i + 31 * Port + 3) % 256

\* the sensor takes the first eight clock pulses as the command and presents
\* one payload bit, least significant first, from each pulse after them
CommandBits == 8
SensorPin6(Port) ==
  LET n == envIn[Port].rx - (CommandBits + 1)
  IN  IF n \in 0 .. (NXTCOLOR_BYTES * 8 - 1)
      THEN IF Bit(SensorByte(Port, n \div 8), n % 8) THEN 1 ELSE 0
      ELSE envIn[Port].pin6

\* PINRead(Port,INPUT_PORT_PIN6) of the clocked transfer
PINRead6Clocked(s, Port) == Level(s.InputPortPin[Port].Pin6, SensorPin6(Port))

\* the reset pulses clear the sensor's pulse count, a rising clock edge of the
\* transfer advances it (s: program state before the colour tick)
SensorRx(s, Port) ==
  LET c == s.NxtColor[Port]
  IN  IF c.State \in 1 .. 5 THEN 0
      ELSE IF c.State # 0 /\ c.BitCnt # 0 /\ c.ClkHigh = 0
      THEN Min(envIn[Port].rx + 1, CommandBits + NXTCOLOR_BYTES * 8)
      ELSE envIn[Port].rx

InitDelayTicks == (DCM_NXT_COLOR_INIT_DELAY * 1000) \div NXTCOLOR_TIMER_RESOLUTION

\* switch (NxtColorState[Port])
NxtColorSwitch(s, Port) ==
  LET c == s.NxtColor[Port]
  IN  CASE c.State = 1 ->
             [s EXCEPT !.InputPortPin[Port].Pin5 = "float",
                       !.NxtColor[Port].State = 2]
        [] c.State = 2 ->
             IF PINRead5(s, Port) # 0 /\ c.InitCnt # 0
             THEN [s EXCEPT !.NxtColor[Port].InitTimer = 0,
                            !.NxtColor[Port].State = 4]
             ELSE [s EXCEPT !.InputPortPin[Port].Pin5 = "high",
                            !.NxtColor[Port].State = 3]
        [] c.State = 3 ->
             [s EXCEPT !.InputPortPin[Port].Pin5 = "low",
                       !.NxtColor[Port].InitCnt = Inc8(c.InitCnt),
                       !.NxtColor[Port].State = IF Inc8(c.InitCnt) >= 2 THEN 4 ELSE 1]
        [] c.State = 4 ->
             [s EXCEPT !.InputPortPin[Port].Pin5 = "low",
                       !.NxtColor[Port].InitTimer = (c.InitTimer + 1) % 65536,
                       !.NxtColor[Port].State =
                          IF (c.InitTimer + 1) % 65536 >= InitDelayTicks THEN 5 ELSE 4]
        [] c.State = 5 ->
             [s EXCEPT !.NxtColorBuffer[Port][0] = c.Cmd,
                       !.NxtColor[Port].ByteCnt = 1,
                       !.NxtColor[Port].BytePnt = 0,
                       !.NxtColor[Port].Tx = 1,
                       !.NxtColor[Port].State = 6]
        [] c.State = 6 ->
             IF c.BitCnt = 0 /\ c.ByteCnt = 0
             THEN [s EXCEPT !.NxtColor[Port].ByteCnt = NXTCOLOR_BYTES,
                            !.NxtColor[Port].BytePnt = 0,
                            !.NxtColor[Port].Tx = 0,
                            !.NxtColor[Port].State = 7]
             ELSE s
        [] c.State = 7 ->
             IF c.BitCnt = 0 /\ c.ByteCnt = 0
             THEN [s EXCEPT !.NxtColor[Port].State = 8]
             ELSE s
        [] OTHER -> [s EXCEPT !.NxtColor[Port].State = 0]

\* the clock half periods: rising edge (data out or line released), falling
\* edge (data in), or the load of the next byte
NxtColorClock(s, Port) ==
  LET c == s.NxtColor[Port]
      in == (c.Byte \div 2) + (IF PINRead6Clocked(s, Port) # 0 THEN 128 ELSE 0)
  IN  IF c.BitCnt # 0
      THEN IF c.ClkHigh = 0
           THEN IF c.Tx # 0
                THEN [s EXCEPT !.InputPortPin[Port].Pin6 =
                                  IF c.Byte % 2 = 1 THEN "high" ELSE "low",
                               !.NxtColor[Port].Byte = c.Byte \div 2,
                               !.InputPortPin[Port].Pin5 = "high",
                               !.NxtColor[Port].ClkHigh = 1]
                ELSE [s EXCEPT !.InputPortPin[Port].Pin6 = "float",
                               !.InputPortPin[Port].Pin5 = "high",
                               !.NxtColor[Port].ClkHigh = 1]
           ELSE IF c.Tx # 0
                THEN [s EXCEPT !.NxtColor[Port].BitCnt = c.BitCnt - 1,
                               !.InputPortPin[Port].Pin5 = "low",
                               !.NxtColor[Port].ClkHigh = 0]
                ELSE IF c.BitCnt - 1 = 0 /\ c.BytePnt \in BufIdx
                THEN [s EXCEPT !.NxtColor[Port].BitCnt = 0,
                               !.NxtColor[Port].Byte = in,
                               !.NxtColorBuffer[Port][c.BytePnt] = in,
                               !.NxtColor[Port].BytePnt = Inc8(c.BytePnt),
                               !.InputPortPin[Port].Pin5 = "low",
                               !.NxtColor[Port].ClkHigh = 0]
                ELSE [s EXCEPT !.NxtColor[Port].BitCnt = c.BitCnt - 1,
                               !.NxtColor[Port].Byte = in,
                               !.InputPortPin[Port].Pin5 = "low",
                               !.NxtColor[Port].ClkHigh = 0]
      ELSE IF c.ByteCnt # 0
           THEN IF c.Tx # 0 /\ c.BytePnt \in BufIdx
                THEN [s EXCEPT !.NxtColor[Port].Byte = s.NxtColorBuffer[Port][c.BytePnt],
                               !.NxtColor[Port].BytePnt = Inc8(c.BytePnt),
                               !.NxtColor[Port].BitCnt = 8,
                               !.NxtColor[Port].ByteCnt = c.ByteCnt - 1]
                ELSE [s EXCEPT !.NxtColor[Port].BitCnt = 8,
                               !.NxtColor[Port].ByteCnt = c.ByteCnt - 1]
           ELSE s

\* variant: the clock half period runs before the switch on the sub-state
NxtColorCommIntrPortClockFirst(s, Port) ==
  IF s.NxtColor[Port].State # 0 THEN NxtColorSwitch(NxtColorClock(s, Port), Port) ELSE s

\* variant: the default case of the switch, which ends the session, is left
\* out
NxtColorCommIntrPortNoEnd(s, Port) ==
  IF s.NxtColor[Port].State \in 1 .. 7 THEN NxtColorClock(NxtColorSwitch(s, Port), Port) ELSE s

NxtColorCommIntrPort(s, Port) ==
  IF s.NxtColor[Port].State # 0 THEN NxtColorClock(NxtColorSwitch(s, Port), Port) ELSE s

RECURSIVE NxtColorCommIntrFrom(_, _)
NxtColorCommIntrFrom(s, Port) ==
  IF Port >= INPUTS THEN s
  ELSE NxtColorCommIntrFrom(NxtColorCommIntrPort(s, Port), Port + 1)

(***************************************************************************)
(* The ADC scan scheduler (Device1TimerInterrupt1).  The raw readings it   *)
(* stores are not state of the model: a reader of a raw reading sees what  *)
(* the attached device presents.  PreemptMilliSeconds is left out.         *)
(***************************************************************************)
Reading1 == << 128, 32, 0, 1, 2, 3, 4, 5, 6, 7 >>
NextTime1 == << 0, 0, 0, 1, 0, 0, 0, 2, 0, 1 >>
Reading2 == << 128, 32, 19, 0, 1, 2, 16, 3, 4, 5, 17, 6, 7, 128, 18 >>
ClockHigh2 == << 0, 1, 0, 0, 0, 0, 0, 0, 0, 2, 0, 0, 0, 0, 0 >>
ClockLow2 == << 0, 0, 0, 0, 0, 1, 0, 0, 0, 0, 0, 0, 0, 1, 0 >>
NextTime2 == << 0, 0, 0, 1, 0, 0, 0, 1, 0, 0, 0, 2, 0, 0, 1 >>

\* ktime_set(0,..) of Device1Init [us]
Time1 == << 200, 600 >>
Time2 == << 200, 400 >>

\* the colour set-up command after which the scheduler clocks the sensor
ColorCmdFull == 13

\* variant: the rotating slot wraps to slot 0
NextInputPoint1FromZero(x) == IF x + 1 >= INPUTADC THEN 0 ELSE x + 1

\* if (++InputPoint1 >= INPUTADC) InputPoint1 = 8
NextInputPoint1(x) == IF x + 1 >= INPUTADC THEN 8 ELSE x + 1

\* one entry of scheme 1 (NxtPointer is the C index, the tables count from 1)
Slot1(s) ==
  [s EXCEPT !.InputPoint1 = IF Bit(Reading1[s.NxtPointer + 1], 5)
                            THEN NextInputPoint1(@) ELSE @,
            !.NxtPointer = @ + 1]

\* one entry of scheme 2: as scheme 1, then the sensor clock on pin 5
Slot2(s) ==
  LET i == s.NxtPointer + 1
      ip2 == s.InputPoint2
      clocked == s.NxtcolorLatchedCmd[ip2] = ColorCmdFull /\ s.Nxtcolor[ip2] # 0
      s1 == IF clocked /\ ClockHigh2[i] # 0
            THEN [s EXCEPT !.InputPortPin[ip2].Pin5 =
                              IF ClockHigh2[i] = 1 THEN "high" ELSE "float"]
            ELSE s
      s2 == IF clocked /\ ClockLow2[i] # 0
            THEN [s1 EXCEPT !.InputPortPin[ip2].Pin5 = "low"]
            ELSE s1
  IN  [s2 EXCEPT !.InputPoint1 = IF Bit(Reading2[i], 5) THEN NextInputPoint1(@) ELSE @,
                 !.NxtPointer = @ + 1]

\* do .. while (NextTime1[NxtPointer - 1] == 0), then the next delay
RECURSIVE Scheme1(_)
Scheme1(s) ==
  LET t == Slot1(s)
  IN  IF NextTime1[t.NxtPointer] = 0 THEN Scheme1(t)
      ELSE [t EXCEPT !.NextTime = Time1[NextTime1[t.NxtPointer]],
                     !.NxtPointer = IF @ >= SCHEMESIZE1 THEN 0 ELSE @]

RECURSIVE Scheme2(_)
Scheme2(s) ==
  LET t == Slot2(s)
  IN  IF NextTime2[t.NxtPointer] = 0 THEN Scheme2(t)
      ELSE [t EXCEPT !.NextTime = Time2[NextTime2[t.NxtPointer]],
                     !.NxtPointer = IF @ >= SCHEMESIZE2 THEN 0 ELSE @]

NextLog(x) == IF x + 1 >= DEVICE_LOGBUF_SIZE THEN 0 ELSE x + 1

\* variant: the flag is not cleared before the ports are looked at
ColorAtEndOfPassSticky(s) ==
  IF \E Port \in InPorts : s.NxtColorActive[Port] # 0 THEN 1 ELSE s.Color

\* Color = 0; then Color = 1 for every port with NxtColorActive set
ColorAtEndOfPass(s) ==
  IF \E Port \in InPorts : s.NxtColorActive[Port] # 0 THEN 1 ELSE 0

\* variant: the sample rings of all ports are rotated
EndOfPassAllRings(s) ==
  LET in(Port) == NextLog(s.pAnalog.LogIn[Port])
  IN  [s EXCEPT
        !.Color = ColorAtEndOfPass(s),
        !.pAnalog.Actual = [Port \in InPorts |-> s.pAnalog.LogIn[Port]],
        !.pAnalog.LogIn = [Port \in InPorts |-> in(Port)],
        !.pAnalog.LogOut = [Port \in InPorts |->
                              IF in(Port) = @[Port] THEN NextLog(@[Port]) ELSE @[Port]],
        !.Nxtcolor = s.NxtColorActive,
        !.pAnalog.Updated = [Port \in InPorts |-> 1],
        !.NxtcolorLatchedCmd[s.InputPoint2] = s.NxtcolorCmd[s.InputPoint2]]

\* variant: the sample rings of the ports whose colour engine is idle are
\* rotated
EndOfPassIdleRings(s) ==
  LET logs(Port) == s.NxtColor[Port].State = 0
      in(Port) == NextLog(s.pAnalog.LogIn[Port])
  IN  [s EXCEPT
        !.Color = ColorAtEndOfPass(s),
        !.pAnalog.Actual = [Port \in InPorts |->
                              IF logs(Port) THEN s.pAnalog.LogIn[Port] ELSE @[Port]],
        !.pAnalog.LogIn = [Port \in InPorts |-> IF logs(Port) THEN in(Port) ELSE @[Port]],
        !.pAnalog.LogOut = [Port \in InPorts |->
                              IF logs(Port) /\ in(Port) = @[Port]
                              THEN NextLog(@[Port]) ELSE @[Port]],
        !.Nxtcolor = s.NxtColorActive,
        !.pAnalog.Updated = [Port \in InPorts |-> 1],
        !.NxtcolorLatchedCmd[s.InputPoint2] = s.NxtcolorCmd[s.InputPoint2]]

\* variant: the read index of a full ring is left where it is
EndOfPassKeepOldest(s) ==
  LET logs(Port) == s.NxtColorActive[Port] = 0
      in(Port) == NextLog(s.pAnalog.LogIn[Port])
  IN  [s EXCEPT
        !.Color = ColorAtEndOfPass(s),
        !.pAnalog.Actual = [Port \in InPorts |->
                              IF logs(Port) THEN s.pAnalog.LogIn[Port] ELSE @[Port]],
        !.pAnalog.LogIn = [Port \in InPorts |-> IF logs(Port) THEN in(Port) ELSE @[Port]],
        !.Nxtcolor = s.NxtColorActive,
        !.pAnalog.Updated = [Port \in InPorts |-> 1],
        !.NxtcolorLatchedCmd[s.InputPoint2] = s.NxtcolorCmd[s.InputPoint2]]

\* end of a pass (NxtPointer == 0): the schedule of the next pass, the sample
\* rings of the ports without colour sensor, the latched command
EndOfPass(s) ==
  LET logs(Port) == s.NxtColorActive[Port] = 0
      in(Port) == NextLog(s.pAnalog.LogIn[Port])
  IN  [s EXCEPT
        !.Color = ColorAtEndOfPass(s),
        !.pAnalog.Actual = [Port \in InPorts |->
                              IF logs(Port) THEN s.pAnalog.LogIn[Port] ELSE @[Port]],
        !.pAnalog.LogIn = [Port \in InPorts |-> IF logs(Port) THEN in(Port) ELSE @[Port]],
        !.pAnalog.LogOut = [Port \in InPorts |->
                              IF logs(Port) /\ in(Port) = @[Port]
                              THEN NextLog(@[Port]) ELSE @[Port]],
        !.Nxtcolor = s.NxtColorActive,
        !.pAnalog.Updated = [Port \in InPorts |-> 1],
        !.NxtcolorLatchedCmd[s.InputPoint2] = s.NxtcolorCmd[s.InputPoint2]]

\* variant: the schedule of the next entries is chosen after every interrupt
Device1TickMidPass(s) ==
  LET s0 == IF s.NxtPointer = 0
            THEN [s EXCEPT !.InputPoint2 = IF @ + 1 >= INPUTS THEN 0 ELSE @ + 1]
            ELSE s
      s1 == IF s0.Color = 0 THEN Scheme1(s0) ELSE Scheme2(s0)
  IN  IF s1.NxtPointer = 0 THEN EndOfPass(s1)
      ELSE [s1 EXCEPT !.Color = ColorAtEndOfPass(s1)]

\* variant: the colour port is not advanced at the start of a pass
Device1TickSamePort(s) ==
  LET s1 == IF s.Color = 0 THEN Scheme1(s) ELSE Scheme2(s)
  IN  IF s1.NxtPointer = 0 THEN EndOfPass(s1) ELSE s1

Device1Tick(s) ==
  LET s0 == IF s.NxtPointer = 0
            THEN [s EXCEPT !.InputPoint2 = IF @ + 1 >= INPUTS THEN 0 ELSE @ + 1]
            ELSE s
      s1 == IF s0.Color = 0 THEN Scheme1(s0) ELSE Scheme2(s0)
  IN  IF s1.NxtPointer = 0 THEN EndOfPass(s1) ELSE s1

(***************************************************************************)
(* The readings of the ADC scheduler.  The converter is a pipeline, as the *)
(* MuxSetup / Converting / Reading rows of the schedule tables describe    *)
(* it: an exchange selects a channel, the next exchange converts it, the   *)
(* exchange after that returns it.  a.pipe holds the channels selected by  *)
(* the last two exchanges, a.src the channel whose conversion each reading *)
(* slot holds (-1: not stored yet).  Slots 0 .. 15 are pInputs[0 .. 15],   *)
(* slot 16 + 4 * Port + k is NxtCol[Port].ADRaw[k].                        *)
(***************************************************************************)
InputReadMap == << 14, 12, 11, 9, 15, 13, 10, 8, 0, 1, 2, 3, 5, 4, 6, 7 >>
MuxSetup1 == << 0, 1, 2, 3, 4, 5, 6, 7, 32, 32 >>
MuxSetup2 == << 19, 0, 1, 2, 16, 3, 4, 5, 17, 6, 7, 32, 18, 32, 32 >>

NoSlot == -1
ColorSlot(Port, k) == INPUTADC + 4 * Port + k
ReadingSlots == 0 .. (INPUTADC + 4 * INPUTS - 1)

\* variant: an exchange returns the channel the exchange before it selected
AdcExchangeDirect(a, Input, Slot) ==
  [pipe |-> << Input, a.pipe[1] >>,
   src |-> IF Slot = NoSlot THEN a.src ELSE [a.src EXCEPT ![Slot] = a.pipe[1]]]

\* SpiUpdate: Input is selected, the channel selected two exchanges ago is
\* returned and stored through pData (Slot; NoSlot: the local Data)
AdcExchange(a, Input, Slot) ==
  [pipe |-> << Input, a.pipe[1] >>,
   src |-> IF Slot = NoSlot THEN a.src ELSE [a.src EXCEPT ![Slot] = a.pipe[2]]]

\* one entry of scheme 1: the channel selected and the slot written
AdcSlot1(s, a) ==
  LET i == s.NxtPointer + 1
      Input == IF Bit(MuxSetup1[i], 5) THEN InputReadMap[s.InputPoint1 + 1]
               ELSE InputReadMap[(MuxSetup1[i] % 16) + 1]
      Slot == IF Bit(Reading1[i], 5) THEN s.InputPoint1
              ELSE IF Reading1[i] \div 16 = 0 THEN Reading1[i]
              ELSE NoSlot
  IN  AdcExchange(a, Input, Slot)

\* one entry of scheme 2: the colour entries select the channel of the port
\* being served and store into its raw fields
AdcSlot2(s, a) ==
  LET i == s.NxtPointer + 1
      Input == IF Bit(MuxSetup2[i], 5) THEN InputReadMap[s.InputPoint1 + 1]
               ELSE IF Bit(MuxSetup2[i], 4) THEN InputReadMap[s.InputPoint2 + INPUTS + 1]
               ELSE InputReadMap[(MuxSetup2[i] % 16) + 1]
      Slot == IF Bit(Reading2[i], 5) THEN s.InputPoint1
              ELSE IF Bit(Reading2[i], 4) THEN ColorSlot(s.InputPoint2, Reading2[i] % 4)
              ELSE IF Reading2[i] \div 16 = 0 THEN Reading2[i]
              ELSE NoSlot
  IN  AdcExchange(a, Input, Slot)

RECURSIVE AdcScheme1(_, _)
AdcScheme1(s, a) ==
  LET t == Slot1(s)
      b == AdcSlot1(s, a)
  IN  IF NextTime1[t.NxtPointer] = 0 THEN AdcScheme1(t, b) ELSE b

RECURSIVE AdcScheme2(_, _)
AdcScheme2(s, a) ==
  LET t == Slot2(s)
      b == AdcSlot2(s, a)
  IN  IF NextTime2[t.NxtPointer] = 0 THEN AdcScheme2(t, b) ELSE b

\* the readings after Device1TimerInterrupt1 has run in program state s
AdcTick(s, a) ==
  LET s0 == IF s.NxtPointer = 0
            THEN [s EXCEPT !.InputPoint2 = IF @ + 1 >= INPUTS THEN 0 ELSE @ + 1]
            ELSE s
  IN  IF s0.Color = 0 THEN AdcScheme1(s0, a) ELSE AdcScheme2(s0, a)

(***************************************************************************)
(* The electrical environment: what is attached to a port                  *)
(***************************************************************************)
\* input port: pin 1 in ADC counts, pins 2, 5 and 6 as levels; rx is the number
\* of clock pulses a colour sensor has counted since its reset
InOpen == [pin1 |-> ADC_RES, pin2 |-> 1, pin5 |-> 1, pin6 |-> 0, rx |-> 0]
\* pin 2 low, pins 5 and 6 high, pin 1 near ground
InColorSensor == [pin1 |-> 40, pin2 |-> 0, pin5 |-> 1, pin6 |-> 1, rx |-> 0]
InDumbSensor == [pin1 |-> 2000, pin2 |-> 1, pin5 |-> 1, pin6 |-> 0, rx |-> 0]
InPin6High == [pin1 |-> ADC_RES, pin2 |-> 1, pin5 |-> 1, pin6 |-> 1, rx |-> 0]
InPin5Low == [pin1 |-> ADC_RES, pin2 |-> 1, pin5 |-> 0, pin6 |-> 0, rx |-> 0]
InSignatures == {InOpen, InColorSensor, InDumbSensor, InPin6High, InPin5Low}

\* output port: pin 5 in ADC counts while floating (v5) and while the probe
\* drives it (v5p), pin 6 as a level
OutOpen == [v5 |-> 2047, v5p |-> 0, pin6 |-> 1]
\* pin 5 balanced, pin 6 low, a new tacho answer to the probe
OutBalancedPin6Low == [v5 |-> 2047, v5p |-> 1147, pin6 |-> 0]
\* pin 5 pulled above the balance band, a new tacho answer to the probe
OutNewTacho == [v5 |-> 2200, v5p |-> 1147, pin6 |-> 1]
\* identification resistor of a dumb output device
OutDumbDevice == [v5 |-> 1229, v5p |-> 0, pin6 |-> 1]
OutSignatures == {OutOpen, OutBalancedPin6Low, OutNewTacho, OutDumbDevice}

\* the ports the environment and the command paths act on
EnvInPorts == {0}
EnvOutPorts == {0}

\* caps of the history counters
\* the steady-time window in DCM ticks
WindowTicks == IN_CONNECT_STEADY_TIME \div DCM_TIMER_RESOLUTION
RunCap == WindowTicks + 1
InSinceCap == 3
OutSinceCap == 6

(***************************************************************************)
(* Init: the state ModuleInit leaves (Device1Init, Device3Init)            *)
(***************************************************************************)
InputPortDefault ==
  [Value |-> 0, Connected |-> 0, Cmd |-> 0, State |-> "DCM_INIT", Event |-> 0,
   Timer |-> 0, FSMEnabled |-> 1]

OutputPortDefault ==
  [Value5Float |-> 0, Value5Low |-> 0, Connected |-> 0, State |-> "DCM_INIT",
   Event |-> 0, Timer |-> 0]

NxtColorIdle ==
  [State |-> 0, InitCnt |-> 0, BytePnt |-> 0, ByteCnt |-> 0, BitCnt |-> 0, Cmd |-> 0,
   Byte |-> 0, Tx |-> 0, ClkHigh |-> 0, InitTimer |-> 0]

\* memset(pAnalog,0,..) and the four classification tables set to 0
AnalogInit ==
  [InDcm |-> [p \in InPorts |-> "0"], InConn |-> [p \in InPorts |-> "0"],
   OutDcm |-> [p \in OutPorts |-> "0"], OutConn |-> [p \in OutPorts |-> "0"],
   OutPin5Low |-> [p \in OutPorts |-> 0],
   NxtCol |-> [p \in InPorts |-> [i \in BufIdx |-> 0]],
   Actual |-> [p \in InPorts |-> 0], LogIn |-> [p \in InPorts |-> 0],
   LogOut |-> [p \in InPorts |-> 0], Updated |-> [p \in InPorts |-> 0]]

\* adc: the two exchanges that ended the previous pass selected the rotating
\* channel; no reading of this behaviour is stored yet
HistInit ==
  [inRun |-> [p \in InPorts |-> 0], inMask |-> [p \in InPorts |-> 0],
   inSince |-> [p \in InPorts |-> -1], manual |-> [p \in InPorts |-> FALSE],
   outRun |-> [p \in OutPorts |-> 0], outMask |-> [p \in OutPorts |-> 0],
   outSince |-> [p \in OutPorts |-> -1],
   steps |-> -1, drawn |-> "",
   dcmAt |-> -1, colAt |-> -1, adcAt |-> -1, done |-> {}, colorSet |-> FALSE,
   scheme |-> -1, marked |-> {}, started |-> {},
   adc |-> [pipe |-> << InputReadMap[9], InputReadMap[9] >>,
            src |-> [x \in ReadingSlots |-> NoSlot]],
   late |-> 0,
   relRun |-> [p \in InPorts |-> 0], openRun |-> [p \in OutPorts |-> 0],
   low |-> [p \in InPorts |-> 0],
   wire |-> [p \in InPorts |-> [n |-> 0, v |-> 0]]]

ProgInit ==
  [ InputPort |-> [p \in InPorts |-> InputPortDefault],
    OutputPort |-> [p \in OutPorts |-> OutputPortDefault],
    pAnalog |-> AnalogInit,
    Device3State |-> 0,
    Device3StateTimer |-> 0,
    TestMode |-> 0,
    InputPortPin |-> [p \in InPorts |->
                        [Pin5 |-> "float", Pin6 |-> "float", Buf |-> "float"]],
    OutputPortPin |-> [p \in OutPorts |->
                        [Pin1 |-> "float", Pin2 |-> "float", Pin5W |-> "float",
                         Pin6 |-> "float"]],
    NxtColor |-> [p \in InPorts |-> NxtColorIdle],
    NxtColorBuffer |-> [p \in InPorts |-> [i \in BufIdx |-> 0]],
    NxtColorInitInUse |-> {},
    NxtColorTimerOn |-> FALSE,
    NxtColorActive |-> [p \in InPorts |-> 0],
    Nxtcolor |-> [p \in InPorts |-> 0],
    NxtcolorCmd |-> [p \in InPorts |-> 0],
    NxtcolorLatchedCmd |-> [p \in InPorts |-> 0],
    Color |-> 0,
    NxtPointer |-> 0,
    InputPoint1 |-> 8,
    InputPoint2 |-> 0,
    NextTime |-> Time1[1] ]

\* the program state is the record r
Holds(r) ==
  /\ InputPort = r.InputPort
  /\ OutputPort = r.OutputPort
  /\ pAnalog = r.pAnalog
  /\ Device3State = r.Device3State
  /\ Device3StateTimer = r.Device3StateTimer
  /\ TestMode = r.TestMode
  /\ InputPortPin = r.InputPortPin
  /\ OutputPortPin = r.OutputPortPin
  /\ NxtColor = r.NxtColor
  /\ NxtColorBuffer = r.NxtColorBuffer
  /\ NxtColorInitInUse = r.NxtColorInitInUse
  /\ NxtColorTimerOn = r.NxtColorTimerOn
  /\ NxtColorActive = r.NxtColorActive
  /\ Nxtcolor = r.Nxtcolor
  /\ NxtcolorCmd = r.NxtcolorCmd
  /\ NxtcolorLatchedCmd = r.NxtcolorLatchedCmd
  /\ Color = r.Color
  /\ NxtPointer = r.NxtPointer
  /\ InputPoint1 = r.InputPoint1
  /\ InputPoint2 = r.InputPoint2
  /\ NextTime = r.NextTime

Init ==
  /\ Holds(ProgInit)
  /\ envIn = [p \in InPorts |-> InOpen]
  /\ envOut = [p \in OutPorts |-> OutOpen]
  /\ budget = [env |-> MaxEnvChanges, cmd |-> MaxCmds]
  /\ hist = HistInit

(***************************************************************************)
(* History of one DCM tick (s: program state before the tick)              *)
(***************************************************************************)
Running(s) == s.Device3State >= 3

NextRun(run, mask, m) ==
  IF m = 0 THEN 0 ELSE IF m = mask THEN Min(run + 1, RunCap) ELSE 1

InObserved(s, p) ==
  Running(s) /\ s.InputPort[p].FSMEnabled = 1 /\ s.InputPort[p].State = "DCM_FLOATING"

OutObserved(s, p) == Running(s) /\ s.OutputPort[p].State = "DCM_FLOATING"

NextSince(since, closes, cap) ==
  IF closes THEN 0 ELSE IF since >= 0 THEN Min(since + 1, cap) ELSE -1

\* the tick finds the port's colour session complete (ready branch of Busy)
Completes(s, p) ==
  /\ Running(s)
  /\ s.InputPort[p].FSMEnabled = 1
  /\ s.InputPort[p].State = "DCM_NXT_COLOR_BUSY"
  /\ NxtColorCommReady(s, p)

\* the port's own state machine is swept by the tick
Swept(s, p) == Running(s) /\ s.InputPort[p].FSMEnabled = 1

\* the tick starts a colour session on the port (Wait, command latched)
Starts(s, p) ==
  /\ Swept(s, p)
  /\ s.InputPort[p].State = "DCM_NXT_COLOR_WAIT"
  /\ s.NxtcolorCmd[p] = s.NxtcolorLatchedCmd[p]

\* the tick stops the port's colour session (Init, ColorInit, and Busy on
\* completion or time-out)
Stops(s, p) ==
  /\ Swept(s, p)
  /\ \/ s.InputPort[p].State \in {"DCM_INIT", "DCM_NXT_COLOR_INIT"}
     \/ /\ s.InputPort[p].State = "DCM_NXT_COLOR_BUSY"
        /\ \/ NxtColorCommReady(s, p)
           \/ Inc8(s.InputPort[p].Timer) > ColorTimeoutTicks

\* the release condition of the wait state a connected input port is in, as
\* the attached device shows it on this tick
ReleaseSeen(p) ==
  CASE InputPort[p].State = "DCM_CONNECTED_WAITING_FOR_PIN1_TO_FLOAT" ->
         InPin1(p) > VtoC(IN1_NEAR_5V)
    [] InputPort[p].State = "DCM_CONNECTED_WAITING_FOR_PIN6_LOW" -> PINRead6(Prog, p) = 0
    [] InputPort[p].State = "DCM_CONNECTED_WAITING_FOR_PIN5_HIGH" -> PINRead5(Prog, p) # 0
    [] InputPort[p].State = "DCM_CONNECTED_WAITING_FOR_PIN2_HIGH" -> envIn[p].pin2 # 0
    [] OTHER -> FALSE

\* the port-open signal of an output port as the DCM tick reads it: pin 5 in
\* balance and pin 6 not low
PortOpenSeen(p) == ~OutOfBalance(OutPin5(Prog, p)) /\ POUTRead6(Prog, p) # 0

\* the number of consecutive DCM ticks, this one included, that found the port
\* in a wait state with its release condition showing (counted to RunCap)
NextHeld(run, held) == IF held THEN (IF run < RunCap THEN run + 1 ELSE run) ELSE 0

HistTick(s) ==
  LET inR(p) == IF InObserved(s, p)
                THEN NextRun(hist.inRun[p], hist.inMask[p], InFloatingEvent(s, p))
                ELSE 0
      outR(p) == IF OutObserved(s, p)
                 THEN NextRun(hist.outRun[p], hist.outMask[p], OutFloatingEvent(s, p))
                 ELSE 0
  IN  IF ~Running(s) THEN hist
      ELSE [hist EXCEPT
        !.inRun = [p \in InPorts |-> inR(p)],
        !.inMask = [p \in InPorts |->
                      IF InObserved(s, p) THEN InFloatingEvent(s, p) ELSE 0],
        !.inSince = [p \in InPorts |->
                      NextSince(hist.inSince[p], inR(p) = WindowTicks, InSinceCap)],
        !.manual = [p \in InPorts |->
                      hist.manual[p] /\ ~(s.InputPort[p].FSMEnabled = 1
                                          /\ s.InputPort[p].State = "DCM_INIT")],
        !.outRun = [p \in OutPorts |-> outR(p)],
        !.outMask = [p \in OutPorts |->
                      IF OutObserved(s, p) THEN OutFloatingEvent(s, p) ELSE 0],
        !.outSince = [p \in OutPorts |->
                      NextSince(hist.outSince[p], outR(p) = WindowTicks, OutSinceCap)],
        !.relRun = [p \in InPorts |->
                      NextHeld(@[p], Swept(s, p) /\ ReleaseSeen(p))],
        !.openRun = [p \in OutPorts |->
                       NextHeld(@[p], s.OutputPort[p].State =
                                        "DCM_CONNECTED_WAITING_FOR_PORT_OPEN"
                                      /\ PortOpenSeen(p))],
        !.done = @ \cup {p \in InPorts : Completes(s, p)},
        !.marked = (@ \cup {p \in InPorts : Completes(s, p)})
                     \ {p \in InPorts : Swept(s, p) /\ s.InputPort[p].State = "DCM_INIT"},
        !.started = (@ \ {p \in InPorts : Stops(s, p)})
                      \cup {p \in InPorts : Starts(s, p)}]

\* a command or a change of the environment ends the stable signature
Unsettle(ins, outs) ==
  [hist EXCEPT !.inSince = [p \in InPorts |-> IF p \in ins THEN -1 ELSE @[p]],
               !.outSince = [p \in OutPorts |-> IF p \in outs THEN -1 ELSE @[p]]]

(***************************************************************************)
(* Actions                                                                 *)
(***************************************************************************)
\* Timing.  In Spec and SpecLadder only the DCM timer runs and time is not
\* modelled (hist.dcmAt = -1).  In SpecColor the three timers fire at their
\* expiry times [us]: the handler whose expiry is earliest runs next, handlers
\* that expire together run in either order.
Device3Time == DCM_TIMER_RESOLUTION * 1000
NxtColorTime == NXTCOLOR_TIMER_RESOLUTION
Horizon == MaxDcmTicks * Device3Time

Timed == hist.dcmAt # -1
Pending ==
  {hist.dcmAt, hist.adcAt} \cup (IF NxtColorTimerOn THEN {hist.colAt} ELSE {})
Earliest == CHOOSE m \in Pending : \A x \in Pending : m <= x
Due(at) == Timed /\ at = Earliest /\ at < Horizon

\* hrtimer_start of the colour timer is reached in the sweep from Port on: a
\* session is started while no port holds the timer
RECURSIVE TimerStartsFrom(_, _)
TimerStartsFrom(s, Port) ==
  IF Port >= INPUTS THEN FALSE
  ELSE LET t == InputPortTick(s, Port)
       IN  \/ s.NxtColorInitInUse = {} /\ t.NxtColorInitInUse # {}
           \/ TimerStartsFrom(t, Port + 1)

\* the 10 ms DCM timer; a colour session it starts arms the colour timer
Device3TimerInterrupt1 ==
  /\ ~Timed \/ Due(hist.dcmAt)
  /\ hist.steps < MaxLadderTicks
  /\ LET t == Device3Tick(Prog)
     IN  /\ Becomes(t)
         /\ hist' = [HistTick(Prog) EXCEPT
                       !.dcmAt = IF @ = -1 THEN -1 ELSE @ + Device3Time,
                       !.colAt = IF Timed /\ Running(Prog) /\ TimerStartsFrom(Prog, 0)
                                 THEN hist.dcmAt + NxtColorTime ELSE @,
                       !.steps = IF @ = -1 THEN -1 ELSE @ + 1]
  /\ UNCHANGED << envIn, envOut, budget >>

\* the 200 us colour timer; the attached sensors follow the clock
\* hist.low: the colour ticks in a row that have run case 4 (pin 5 held low
\* for the init delay) for the port
HeldLow(s, low) ==
  [Port \in InPorts |-> IF s.NxtColor[Port].State = 4 THEN low[Port] + 1 ELSE 0]

\* hist.wire: the command bits seen on the wire in the session so far, n bits
\* of value v, least significant first: the level of pin 6 at every tick
\* that takes the clock (pin 5) high while the engine transmits; t is the
\* state after the tick
OnWire(s, t, wire) ==
  [Port \in InPorts |->
     IF s.NxtColor[Port].State = 5 THEN [n |-> 0, v |-> 0]
     ELSE IF /\ s.NxtColor[Port].State # 0
             /\ t.NxtColor[Port].Tx # 0
             /\ s.NxtColor[Port].ClkHigh = 0
             /\ t.NxtColor[Port].ClkHigh = 1
     THEN [n |-> wire[Port].n + 1,
           v |-> wire[Port].v
                   + (IF t.InputPortPin[Port].Pin6 = "high" THEN 2 ^ wire[Port].n ELSE 0)]
     ELSE wire[Port]]

NxtColorCommIntr ==
  /\ NxtColorTimerOn
  /\ Due(hist.colAt)
  /\ Becomes(NxtColorCommIntrFrom(Prog, 0))
  /\ envIn' = [Port \in InPorts |-> [envIn[Port] EXCEPT !.rx = SensorRx(Prog, Port)]]
  /\ hist' = [hist EXCEPT !.colAt = @ + NxtColorTime, !.low = HeldLow(Prog, @),
                          !.wire = OnWire(Prog, NxtColorCommIntrFrom(Prog, 0), @)]
  /\ UNCHANGED << envOut, budget >>

\* the ADC timer: forwarded by the delay the previous interrupt chose
Device1TimerInterrupt1 ==
  /\ Due(hist.adcAt)
  /\ LET t == Device1Tick(Prog)
     IN  /\ Becomes(t)
         /\ hist' = [hist EXCEPT !.adcAt = @ + NextTime,
                                 !.colorSet = @ \/ (hist.done # {} /\ t.Color = 1),
                                 !.scheme = Color,
                                 !.adc = AdcTick(Prog, @)]
  /\ UNCHANGED << envIn, envOut, budget >>

EnvChangeIn ==
  /\ budget.env > 0
  /\ \E p \in EnvInPorts : \E sig \in InSignatures \ {envIn[p]} :
       /\ envIn' = [envIn EXCEPT ![p] = sig]
       /\ hist' = Unsettle({p}, {})
  /\ budget' = [budget EXCEPT !.env = @ - 1]
  /\ Becomes(Prog)
  /\ UNCHANGED envOut

EnvChangeOut ==
  /\ budget.env > 0
  /\ \E p \in EnvOutPorts : \E sig \in OutSignatures \ {envOut[p]} :
       /\ envOut' = [envOut EXCEPT ![p] = sig]
       /\ hist' = Unsettle({}, {p})
  /\ budget' = [budget EXCEPT !.env = @ - 1]
  /\ Becomes(Prog)
  /\ UNCHANGED envIn

(***************************************************************************)
(* The command paths                                                       *)
(***************************************************************************)
\* a write buffer: one character per input port, "-" for "no change"
NoChange == [p \in InPorts |-> "-"]

\* variant: disabling a port floats its pins
Device1WriteEnableFloating(s, Port, Char) ==
  CASE Char = "0" -> InputPortFloat([s EXCEPT !.InputPort[Port].FSMEnabled = 0], Port)
    [] Char = "1" -> [s EXCEPT !.InputPort[Port].FSMEnabled = 1]
    [] OTHER -> s

Device1WriteEnable(s, Port, Char) ==
  CASE Char = "0" -> [s EXCEPT !.InputPort[Port].FSMEnabled = 0]
    [] Char = "1" -> [s EXCEPT !.InputPort[Port].FSMEnabled = 1]
    [] OTHER -> s

\* the 't' command skips a port that is not connected or not disabled
TypeSkipped(s, Port) ==
  s.InputPort[Port].Connected = 0 \/ s.InputPort[Port].FSMEnabled = 1

Device1WriteType(s, Port, Char) ==
  IF TypeSkipped(s, Port) THEN s
  ELSE CASE Char = "CONN_NXT_IIC" -> SetIn(s, Port, "TYPE_NXT_IIC", "CONN_NXT_IIC")
         [] Char = "CONN_NXT_DUMB" -> SetIn(s, Port, "TYPE_NXT_LIGHT", "CONN_NXT_DUMB")
         [] Char = "CONN_INPUT_DUMB" -> SetIn(s, Port, "TYPE_TOUCH", "CONN_INPUT_DUMB")
         [] Char = "CONN_NONE" -> SetIn(s, Port, "TYPE_NONE", "CONN_NONE")
         [] OTHER -> s

RECURSIVE Device1WriteFrom(_, _, _, _)
Device1WriteFrom(s, Cmd, Buf, Port) ==
  IF Port >= INPUTS THEN s
  ELSE Device1WriteFrom(IF Cmd = "e" THEN Device1WriteEnable(s, Port, Buf[Port])
                        ELSE IF Cmd = "t" THEN Device1WriteType(s, Port, Buf[Port])
                        ELSE s,
                        Cmd, Buf, Port + 1)

\* Device1Write with Buf[0] = Cmd and Buf[Port + 1] = Buf[Port]
Device1WriteBuf(s, Cmd, Buf) == Device1WriteFrom(s, Cmd, Buf, 0)

Device2IoctlReq(s, Request) ==
  CASE Request = "TST_PIN_OFF" ->
         [s EXCEPT !.Device3State = 0,
                   !.TestMode = 0,
                   !.InputPort = [p \in InPorts |-> [@[p] EXCEPT !.State = "DCM_INIT"]],
                   !.OutputPort = [p \in OutPorts |-> [@[p] EXCEPT !.State = "DCM_INIT"]]]
    [] Request = "TST_PIN_ON" ->
         [s EXCEPT !.Device3State = 0,
                   !.TestMode = 1,
                   !.InputPortPin = [p \in InPorts |->
                        [Pin5 |-> "float", Pin6 |-> "float", Buf |-> "high"]],
                   !.OutputPortPin = [p \in OutPorts |->
                        [Pin1 |-> "low", Pin2 |-> "low", Pin5W |-> "low", Pin6 |-> "float"]],
                   !.pAnalog.InDcm = [p \in InPorts |-> "TYPE_NONE"],
                   !.pAnalog.InConn = [p \in InPorts |-> "CONN_NONE"],
                   !.pAnalog.OutDcm = [p \in OutPorts |-> "TYPE_NONE"],
                   !.pAnalog.OutConn = [p \in OutPorts |-> "CONN_NONE"]]
    [] OTHER -> s

\* the characters of Device3Write: "-", "f", the digits "0" .. "7" (bit 1 of
\* the digit drives pin 5) and the colour set-up commands 0x0D .. 0x11
IsDigit(Char) == Char \in {"0", "1", "2", "3", "4", "5", "6", "7"}
DigitPin5High(Char) == Char \in {"2", "3", "6", "7"}
ColorSetupCode(Char) ==
  CASE Char = "0x0D" -> 13
    [] Char = "0x0E" -> 14
    [] Char = "0x0F" -> 15
    [] Char = "0x10" -> 16
    [] Char = "0x11" -> 17
    [] OTHER -> 0
IsColorSetup(Char) == ColorSetupCode(Char) # 0

Device3WritePort(s, Port, Char) ==
  CASE Char = "-" -> s
    [] Char = "f" -> InputPortFloat(s, Port)
    [] OTHER ->
         IF s.InputPort[Port].Connected = 0 THEN s
         ELSE IF IsDigit(Char)
         THEN [s EXCEPT !.InputPortPin[Port].Pin5 =
                           IF DigitPin5High(Char) THEN "high" ELSE "low"]
         ELSE IF IsColorSetup(Char)
         THEN [s EXCEPT !.InputPort[Port].Cmd = ColorSetupCode(Char),
                        !.InputPort[Port].Timer = 0,
                        !.InputPort[Port].State = "DCM_NXT_COLOR_INIT"]
         ELSE s

RECURSIVE Device3WriteFrom(_, _, _)
Device3WriteFrom(s, Buf, Port) ==
  IF Port >= INPUTS THEN s
  ELSE Device3WriteFrom(Device3WritePort(s, Port, Buf[Port]), Buf, Port + 1)

Device3WriteBuf(s, Buf) == Device3WriteFrom(s, Buf, 0)

\* the characters the command actions draw for a port of EnvInPorts
EnableChars == {"0", "1"}
TypeChars == {"CONN_NXT_IIC", "CONN_NONE"}
PinChars == {"f", "0", "2"}

Touched(Buf) == {p \in InPorts : Buf[p] # "-"}

Device1Write ==
  /\ budget.cmd > 0
  /\ \E Cmd \in {"e", "t"}, p \in EnvInPorts :
       \E Char \in IF Cmd = "e" THEN EnableChars ELSE TypeChars :
          LET Buf == [NoChange EXCEPT ![p] = Char]
          IN  /\ Becomes(Device1WriteBuf(Prog, Cmd, Buf))
              /\ hist' = [Unsettle(Touched(Buf), {}) EXCEPT
                            !.manual = [q \in InPorts |->
                               @[q] \/ (Cmd = "t" /\ q \in Touched(Buf)
                                        /\ ~TypeSkipped(Prog, q))]]
  /\ budget' = [budget EXCEPT !.cmd = @ - 1]
  /\ UNCHANGED << envIn, envOut >>

Device2Ioctl ==
  /\ budget.cmd > 0
  /\ \E Request \in {"TST_PIN_ON", "TST_PIN_OFF"} :
       /\ Becomes(Device2IoctlReq(Prog, Request))
       /\ hist' = [Unsettle(InPorts, OutPorts) EXCEPT
                     !.manual = [q \in InPorts |-> @[q] /\ Request # "TST_PIN_ON"]]
  /\ budget' = [budget EXCEPT !.cmd = @ - 1]
  /\ UNCHANGED << envIn, envOut >>

Device3Write ==
  /\ budget.cmd > 0
  /\ \E p \in EnvInPorts, Char \in PinChars :
       LET Buf == [NoChange EXCEPT ![p] = Char]
       IN  /\ Becomes(Device3WriteBuf(Prog, Buf))
           /\ hist' = Unsettle(Touched(Buf), {})
  /\ budget' = [budget EXCEPT !.cmd = @ - 1]
  /\ UNCHANGED << envIn, envOut >>

\* Device3Write with a colour set-up command for one port, arriving before
\* one of the first DCM ticks
ColorPorts == {0, 1}
ColorChars == {"0x0D", "0x11"}

Device3WriteColor ==
  /\ budget.cmd > 0
  /\ Due(hist.dcmAt)
  /\ hist.dcmAt <= MaxStartTick * Device3Time
  /\ \E p \in ColorPorts, Char \in ColorChars :
       LET Buf == [NoChange EXCEPT ![p] = Char]
       IN  /\ Becomes(Device3WriteBuf(Prog, Buf))
           /\ hist' = Unsettle(Touched(Buf), {})
  /\ budget' = [budget EXCEPT !.cmd = @ - 1]
  /\ UNCHANGED << envIn, envOut >>

Next ==
  \/ Device3TimerInterrupt1
  \/ EnvChangeIn
  \/ EnvChangeOut
  \/ Device1Write
  \* Device2Ioctl is not an action of Spec
  \/ Device3Write

Spec == Init /\ [][Next]_vars

(***************************************************************************)
(* SpecLadder: the decision ladders as functions of their inputs.  The     *)
(* start-up is over and every port idles in Floating with nothing          *)
(* attached; one case is drawn:                                            *)
(*   input port 0 in Connection or Pin2Low with the debounced mask of      *)
(*     what is attached (the pin 2 bit as the pin 2 test was written       *)
(*     before it was hard-wired);                                          *)
(*   output port 0 in Connection with the two snapshots taken;             *)
(*   output ports 0 and 1 in WaitingForPin5Low at the end of the probe.    *)
(***************************************************************************)
Idle ==
  [ProgInit EXCEPT
     !.Device3State = 3,
     !.Device3StateTimer = DeviceResetTicks,
     !.InputPort = [p \in InPorts |-> [InputPortDefault EXCEPT !.State = "DCM_FLOATING"]],
     !.OutputPort = [p \in OutPorts |-> [OutputPortDefault EXCEPT !.State = "DCM_FLOATING"]],
     !.pAnalog.InDcm = [p \in InPorts |-> "TYPE_NONE"],
     !.pAnalog.InConn = [p \in InPorts |-> "CONN_NONE"],
     !.pAnalog.OutDcm = [p \in OutPorts |-> "TYPE_NONE"],
     !.pAnalog.OutConn = [p \in OutPorts |-> "CONN_NONE"],
     !.InputPortPin = [p \in InPorts |-> [Pin5 |-> "float", Pin6 |-> "float", Buf |-> "high"]],
     !.OutputPortPin = [p \in OutPorts |->
                          [Pin1 |-> "low", Pin2 |-> "low", Pin5W |-> "low", Pin6 |-> "float"]]]

\* pin 1 readings around every threshold of the input ladders [counts]
LadderPin1 ==
  {0, VtoC(IN1_NEAR_GND) - 1, VtoC(IN1_NEAR_GND),
   VtoC(IN1_TOUCH_LOW) - 1, VtoC(IN1_TOUCH_LOW), VtoC(IN1_TOUCH_LOW) + 1,
   VtoC(IN1_TOUCH_HIGH) - 1, VtoC(IN1_TOUCH_HIGH), VtoC(IN1_TOUCH_HIGH) + 1,
   VtoC(IN1_NEAR_PIN2), VtoC(IN1_NEAR_PIN2) + 1,
   VtoC(IN1_NEAR_5V) - 1, VtoC(IN1_NEAR_5V), VtoC(IN1_NEAR_5V) + 1, ADC_RES}

\* the event mask of Floating with the pin 2 test reading the pin
MaskOf(e) ==
  LET e0 == IF e.pin2 = 0 THEN SetBit(0, INPUT_PORT_PIN2) ELSE 0
      e1 == IF e.pin1 < VtoC(IN1_NEAR_5V) THEN SetBit(e0, INPUT_PORT_VALUE) ELSE e0
      e2 == IF e.pin5 = 0 THEN SetBit(e1, INPUT_PORT_PIN5) ELSE e1
  IN  IF e.pin6 # 0 THEN SetBit(e2, INPUT_PORT_PIN6) ELSE e2

LadderInInit ==
  \E State \in {"DCM_CONNECTION", "DCM_PIN2_LOW"}, v \in LadderPin1,
     l2 \in {0, 1}, l5 \in {0, 1}, l6 \in {0, 1} :
    LET e == [pin1 |-> v, pin2 |-> l2, pin5 |-> l5, pin6 |-> l6, rx |-> 0]
    IN  /\ State = "DCM_PIN2_LOW" => l2 = 0
        /\ envIn = [p \in InPorts |-> IF p = 0 THEN e ELSE InOpen]
        /\ envOut = [p \in OutPorts |-> OutOpen]
        /\ Holds([Idle EXCEPT !.InputPort[0].State = State,
                               !.InputPort[0].Event = MaskOf(e),
                               !.InputPort[0].Timer = ConnectStableTicks])
        /\ hist = [HistInit EXCEPT !.steps = 0, !.drawn = State]

\* floating snapshots in every band of the output ladder, and second
\* snapshots that differ from them by just under, exactly and just over the
\* tolerance [counts]
LadderOut5 == {40, 82, 300, 369, 600, 900, 1229, 1965, 1966, 2047, 2130, 2200, 2500, 3100}
LadderDelta == {-1000, -42, -41, -40, 0, 40, 41, 42, 1000}

LadderOutInit ==
  \E cF \in LadderOut5, dc \in LadderDelta, l6 \in {0, 1} :
    LET e == [v5 |-> cF + dc, v5p |-> 0, pin6 |-> l6]
        Event == IF OutOfBalance(cF)
                 THEN SetBit(IF l6 = 0 THEN SetBit(0, OUTPUT_PORT_PIN6) ELSE 0, OUTPUT_PORT_VALUE)
                 ELSE IF l6 = 0 THEN SetBit(0, OUTPUT_PORT_PIN6) ELSE 0
    IN  /\ cF + dc \in 0 .. ADC_RES
        /\ Event # 0
        /\ envIn = [p \in InPorts |-> InOpen]
        /\ envOut = [p \in OutPorts |-> IF p = 0 THEN e ELSE OutOpen]
        /\ Holds([Idle EXCEPT !.OutputPort[0].State = "DCM_CONNECTION",
                               !.OutputPort[0].Event = Event,
                               !.OutputPort[0].Value5Float = CtoV(cF),
                               !.OutputPort[0].Value5Low = CtoV(cF + dc),
                               !.OutputPort[0].Timer = LowDelayTicks])
        /\ hist = [HistInit EXCEPT !.steps = 0, !.drawn = "DCM_CONNECTION_OUT"]

\* post-probe readings around the thresholds of the second table [counts]
LadderProbe == {0, 982, 983, 1310, 1311, 1637, 1638, ADC_RES}
\* what an earlier cycle left: the floating snapshot [counts] and the stored code
LadderLeft == {<< 2200, 0 >>, << 3100, 0 >>, << 2200, 1500 >>}

LadderProbeInit ==
  \E c0 \in LadderProbe, c1 \in LadderProbe, k0 \in LadderLeft, k1 \in LadderLeft :
    LET e(c, k) == [v5 |-> k[1], v5p |-> c, pin6 |-> 1]
        port(k) == [OutputPortDefault EXCEPT
                      !.State = "DCM_WAITING_FOR_PIN5_LOW",
                      !.Event = SetBit(0, OUTPUT_PORT_VALUE),
                      !.Value5Float = CtoV(k[1]),
                      !.Value5Low = CtoV(k[1]),
                      !.Timer = LowDelayTicks - 1]
    IN  /\ envIn = [p \in InPorts |-> InOpen]
        /\ envOut = [p \in OutPorts |->
                       IF p = 0 THEN e(c0, k0) ELSE IF p = 1 THEN e(c1, k1) ELSE OutOpen]
        /\ Holds([Idle EXCEPT !.OutputPort[0] = port(k0),
                               !.OutputPort[1] = port(k1),
                               !.OutputPortPin[0].Pin5W = "high",
                               !.OutputPortPin[1].Pin5W = "high",
                               !.pAnalog.OutPin5Low[0] = k0[2],
                               !.pAnalog.OutPin5Low[1] = k1[2]])
        /\ hist = [HistInit EXCEPT !.steps = 0, !.drawn = "DCM_WAITING_FOR_PIN5_LOW"]

LadderInit ==
  /\ budget = [env |-> 0, cmd |-> 0]
  /\ (LadderInInit \/ LadderOutInit \/ LadderProbeInit)

SpecLadder == LadderInit /\ [][Device3TimerInterrupt1]_vars

(***************************************************************************)
(* SpecColor: colour sensors are attached to the ports of ColorPorts and   *)
(* detection has settled (the state Spec reaches for that signature); the  *)
(* sample rings have wrapped.  The three timers run and Device3Write       *)
(* receives colour set-up commands.                                        *)
(***************************************************************************)
ColorAttached ==
  [Idle EXCEPT
     !.InputPort = [p \in InPorts |->
        IF p \in ColorPorts
        THEN [InputPortDefault EXCEPT
                !.State = "DCM_CONNECTED_WAITING_FOR_PIN1_TO_FLOAT",
                !.Event = SetBit(SetBit(0, INPUT_PORT_PIN6), INPUT_PORT_VALUE),
                !.Connected = 1]
        ELSE @[p]],
     !.pAnalog.InDcm = [p \in InPorts |-> IF p \in ColorPorts THEN "TYPE_UNKNOWN" ELSE @[p]],
     !.pAnalog.InConn = [p \in InPorts |->
                           IF p \in ColorPorts THEN "CONN_INPUT_UART" ELSE @[p]],
     !.pAnalog.LogIn = [p \in InPorts |-> 0],
     !.pAnalog.LogOut = [p \in InPorts |-> 1],
     !.pAnalog.Actual = [p \in InPorts |-> DEVICE_LOGBUF_SIZE - 1],
     !.pAnalog.Updated = [p \in InPorts |-> 1]]

ColorInit ==
  /\ Holds(ColorAttached)
  /\ envIn = [p \in InPorts |-> IF p \in ColorPorts THEN InColorSensor ELSE InOpen]
  /\ envOut = [p \in OutPorts |-> OutOpen]
  /\ budget = [env |-> 0, cmd |-> MaxColorCmds]
  /\ hist = [HistInit EXCEPT !.dcmAt = 0, !.colAt = 0, !.adcAt = 0]

NextColor ==
  \/ Device3TimerInterrupt1
  \/ NxtColorCommIntr
  \/ Device1TimerInterrupt1
  \/ Device3WriteColor

SpecColor == ColorInit /\ [][NextColor]_vars

(***************************************************************************)
(* SpecManual: the manual override.  Detection has settled with input port *)
(* 0 either open or holding a dumb sensor, and output port 0 is open or a  *)
(* motor has just been plugged in; the DCM timer runs (untimed)            *)
(* and the control channel, the test-mode ioctl and the pin-poke channel   *)
(* receive commands.                                                       *)
(***************************************************************************)
DumbAttached ==
  [Idle EXCEPT
     !.InputPort[0] = [InputPortDefault EXCEPT
                         !.State = "DCM_CONNECTED_WAITING_FOR_PIN1_TO_FLOAT",
                         !.Event = SetBit(0, INPUT_PORT_VALUE),
                         !.Connected = 1],
     !.pAnalog.InDcm[0] = "TYPE_UNKNOWN",
     !.pAnalog.InConn[0] = "CONN_INPUT_DUMB"]

ManualInit ==
  /\ \/ Holds(Idle) /\ envIn = [p \in InPorts |-> InOpen]
     \/ /\ Holds(DumbAttached)
        /\ envIn = [p \in InPorts |-> IF p = 0 THEN InDumbSensor ELSE InOpen]
  /\ \E sig \in {OutOpen, OutNewTacho} :
       envOut = [p \in OutPorts |-> IF p = 0 THEN sig ELSE OutOpen]
  /\ budget = [env |-> 0, cmd |-> MaxManualCmds]
  /\ hist = HistInit

NextManual ==
  \/ Device3TimerInterrupt1
  \/ Device1Write
  \/ Device2Ioctl
  \/ Device3Write

SpecManual == ManualInit /\ [][NextManual]_vars

(***************************************************************************)
(* SpecCancel: as SpecColor, with a dumb sensor on input port 2 whose      *)
(* steady-time window is about to close, and with the cancelling commands  *)
(* (automatic detection off for a colour port, test mode on) arriving      *)
(* before chosen DCM ticks.                                                *)
(***************************************************************************)
\* the DCM ticks a cancelling command may precede: during the reset pulses
\* and the delay of a session, during its transfer, after its completion
CancelTicks == {3, 20, 35}
CancelAt ==
  /\ Due(hist.dcmAt)
  /\ hist.dcmAt \in {k * Device3Time : k \in CancelTicks}

\* Device1Write "e" with '0' for one colour port
Device1WriteDisable ==
  /\ budget.cmd > 0
  /\ CancelAt
  /\ \E p \in ColorPorts :
       LET Buf == [NoChange EXCEPT ![p] = "0"]
       IN  /\ Becomes(Device1WriteBuf(Prog, "e", Buf))
           /\ hist' = Unsettle(Touched(Buf), {})
  /\ budget' = [budget EXCEPT !.cmd = @ - 1]
  /\ UNCHANGED << envIn, envOut >>

\* Device2Ioctl with TST_PIN_ON
Device2IoctlTestOn ==
  /\ budget.cmd > 0
  /\ CancelAt
  /\ Becomes(Device2IoctlReq(Prog, "TST_PIN_ON"))
  /\ hist' = [Unsettle(InPorts, OutPorts) EXCEPT !.manual = [q \in InPorts |-> FALSE]]
  /\ budget' = [budget EXCEPT !.cmd = @ - 1]
  /\ UNCHANGED << envIn, envOut >>

DumbPort == 2

CancelAttached ==
  [ColorAttached EXCEPT
     !.InputPort[DumbPort] = [InputPortDefault EXCEPT
                                !.State = "DCM_FLOATING",
                                !.Event = SetBit(0, INPUT_PORT_VALUE),
                                !.Timer = ConnectStableTicks - 3]]

CancelInit ==
  /\ Holds(CancelAttached)
  /\ envIn = [p \in InPorts |-> IF p \in ColorPorts THEN InColorSensor
                                ELSE IF p = DumbPort THEN InDumbSensor ELSE InOpen]
  /\ envOut = [p \in OutPorts |-> OutOpen]
  /\ budget = [env |-> 0, cmd |-> MaxCancelCmds]
  /\ hist = [HistInit EXCEPT !.dcmAt = 0, !.colAt = 0, !.adcAt = 0]

NextCancel ==
  \/ Device3TimerInterrupt1
  \/ NxtColorCommIntr
  \/ Device1TimerInterrupt1
  \/ Device3WriteColor
  \/ Device1WriteDisable
  \/ Device2IoctlTestOn

SpecCancel == CancelInit /\ [][NextCancel]_vars

(***************************************************************************)
(* SpecTimeout: a colour session whose tick source is held up.  A colour   *)
(* set-up command has just been written to input port 0 of ColorAttached;  *)
(* the DCM timer runs and the colour timer fires late by any amount, so    *)
(* that the interleaving of the two handlers is free.                      *)
(***************************************************************************)
TimeoutPort == 0

TimeoutAttached ==
  [ColorAttached EXCEPT !.InputPort[TimeoutPort].Cmd = ColorCmdFull,
                        !.InputPort[TimeoutPort].Timer = 0,
                        !.InputPort[TimeoutPort].State = "DCM_NXT_COLOR_INIT"]

TimeoutInit ==
  /\ Holds(TimeoutAttached)
  /\ envIn = [p \in InPorts |-> IF p \in ColorPorts THEN InColorSensor ELSE InOpen]
  /\ envOut = [p \in OutPorts |-> OutOpen]
  /\ budget = [env |-> 0, cmd |-> 0]
  /\ hist = HistInit

\* NxtColorCommIntr without its expiry time (hist.late: the parity of these
\* interrupts)
NxtColorCommIntrLate ==
  /\ NxtColorTimerOn
  /\ ~Timed
  /\ Becomes(NxtColorCommIntrFrom(Prog, 0))
  /\ envIn' = [Port \in InPorts |-> [envIn[Port] EXCEPT !.rx = SensorRx(Prog, Port)]]
  /\ hist' = [hist EXCEPT !.late = 1 - @, !.low = HeldLow(Prog, @),
                          !.wire = OnWire(Prog, NxtColorCommIntrFrom(Prog, 0), @)]
  /\ UNCHANGED << envOut, budget >>

NextTimeout ==
  \/ Device3TimerInterrupt1
  \/ NxtColorCommIntrLate

SpecTimeout == TimeoutInit /\ [][NextTimeout]_vars

(***************************************************************************)
(* SpecRestart: a colour session that is started again.  A colour set-up   *)
(* command has just been written to input port 0, whose device either      *)
(* leaves pin 5 high or holds it low; the three timers run and the same    *)
(* set-up command may be written once more, before one of the DCM ticks    *)
(* of RestartTicks: during the init delay, during the payload transfer,   *)
(* or after the first session has completed.                               *)
(***************************************************************************)
RestartPort == 0
MaxRestartCmds == 1
RestartTicks == {5, 15, 16, 32}

InColorPin5Low == [InColorSensor EXCEPT !.pin5 = 0]

RestartAttached(e) ==
  [TimeoutAttached EXCEPT
     !.InputPort[RestartPort].Event =
        IF e.pin5 = 0 THEN SetBit(@, INPUT_PORT_PIN5) ELSE @]

RestartInit ==
  /\ \E e \in {InColorSensor, InColorPin5Low} :
       /\ Holds(RestartAttached(e))
       /\ envIn = [p \in InPorts |->
                     IF p = RestartPort THEN e
                     ELSE IF p \in ColorPorts THEN InColorSensor ELSE InOpen]
  /\ envOut = [p \in OutPorts |-> OutOpen]
  /\ budget = [env |-> 0, cmd |-> MaxRestartCmds]
  /\ hist = [HistInit EXCEPT !.dcmAt = 0, !.colAt = 0, !.adcAt = 0]

\* Device3Write with the full-colour set-up character for RestartPort
Device3WriteRestart ==
  /\ budget.cmd > 0
  /\ Due(hist.dcmAt)
  /\ hist.dcmAt \in {k * Device3Time : k \in RestartTicks}
  /\ LET Buf == [NoChange EXCEPT ![RestartPort] = "0x0D"]
     IN  /\ Becomes(Device3WriteBuf(Prog, Buf))
         /\ hist' = Unsettle(Touched(Buf), {})
  /\ budget' = [budget EXCEPT !.cmd = @ - 1]
  /\ UNCHANGED << envIn, envOut >>

NextRestart ==
  \/ Device3TimerInterrupt1
  \/ NxtColorCommIntr
  \/ Device1TimerInterrupt1
  \/ Device3WriteRestart

SpecRestart == RestartInit /\ [][NextRestart]_vars


(***************************************************************************)
(* SpecWait: a colour port waiting for the scheduler.  Input port 0 has    *)
(* completed a colour session (the port is marked, the scheduler has       *)
(* latched its command and clocks it), the set-up command was written      *)
(* again and the DCM has run ColorInit: the port is in ColorWait with its  *)
(* command cleared and the old command still latched.  The DCM timer and   *)
(* the ADC timer fire in any order; the colour port of the pass under way  *)
(* is any of the four.  The ADC timer is followed for MaxWaitPasses passes *)
(* (the ring of port 3, never marked, takes one sample a pass).            *)
(***************************************************************************)
WaitPort == 0
MaxWaitPasses == 6

WaitAttached(ip2) ==
  [TimeoutAttached EXCEPT
     !.InputPort[WaitPort].State = "DCM_NXT_COLOR_WAIT",
     !.InputPortPin[WaitPort].Pin5 = "low",
     !.NxtColor[WaitPort] =
        [Cmd |-> ColorCmdFull, State |-> 0, InitCnt |-> 1,
         BytePnt |-> NXTCOLOR_BYTES, ByteCnt |-> 0, BitCnt |-> 0, ClkHigh |-> 0,
         InitTimer |-> InitDelayTicks, Tx |-> 0,
         Byte |-> SensorByte(WaitPort, NXTCOLOR_BYTES - 1)],
     !.NxtColorBuffer[WaitPort] = [i \in BufIdx |-> SensorByte(WaitPort, i)],
     !.pAnalog.NxtCol[WaitPort] = [i \in BufIdx |-> SensorByte(WaitPort, i)],
     !.NxtColorActive[WaitPort] = 1,
     !.Nxtcolor[WaitPort] = 1,
     !.NxtcolorLatchedCmd[WaitPort] = ColorCmdFull,
     !.Color = 1,
     !.InputPoint2 = ip2]

WaitInit ==
  /\ \E ip2 \in InPorts : Holds(WaitAttached(ip2))
  /\ envIn = [p \in InPorts |->
                IF p = WaitPort
                THEN [InColorSensor EXCEPT !.rx = CommandBits + NXTCOLOR_BYTES * 8]
                ELSE IF p \in ColorPorts THEN InColorSensor ELSE InOpen]
  /\ envOut = [p \in OutPorts |-> OutOpen]
  /\ budget = [env |-> 0, cmd |-> 0]
  /\ hist = [HistInit EXCEPT !.done = {WaitPort}, !.marked = {WaitPort},
                             !.colorSet = TRUE, !.scheme = 1]

\* Device1TimerInterrupt1 without its expiry time (hist.late: the parity of
\* these interrupts)
Device1TimerInterrupt1Late ==
  /\ ~Timed
  /\ pAnalog.LogIn[3] < MaxWaitPasses
  /\ LET t == Device1Tick(Prog)
     IN  /\ Becomes(t)
         /\ hist' = [hist EXCEPT !.late = 1 - @,
                                 !.colorSet = @ \/ (hist.done # {} /\ t.Color = 1),
                                 !.scheme = Color,
                                 !.adc = AdcTick(Prog, @)]
  /\ UNCHANGED << envIn, envOut, budget >>

NextWait ==
  \/ Device3TimerInterrupt1
  \/ Device1TimerInterrupt1Late

SpecWait == WaitInit /\ [][NextWait]_vars

\* the states in which a DCM tick, an ADC interrupt changes the state
DcmTickEnabled ==
  /\ ~Timed \/ Due(hist.dcmAt)
  /\ hist.steps < MaxLadderTicks
  /\ ~Holds(Device3Tick(Prog)) \/ HistTick(Prog) # hist

AdcTickEnabled == ~Timed /\ pAnalog.LogIn[3] < MaxWaitPasses

\* both timers are periodic hrtimers whose handlers return HRTIMER_RESTART:
\* weak fairness of the two handlers, WF_vars(Device3TimerInterrupt1) and
\* WF_vars(Device1TimerInterrupt1Late), written out with the enabling
\* conditions above
SpecWaitFair ==
  /\ SpecWait
  /\ []<>~DcmTickEnabled \/ []<><<Device3TimerInterrupt1>>_vars
  /\ []<>~AdcTickEnabled \/ []<><<Device1TimerInterrupt1Late>>_vars


(***************************************************************************)
(* Properties                                                              *)
(***************************************************************************)
InNone(p) == pAnalog.InDcm[p] = "TYPE_NONE" /\ pAnalog.InConn[p] = "CONN_NONE"
OutNone(p) == pAnalog.OutDcm[p] = "TYPE_NONE" /\ pAnalog.OutConn[p] = "CONN_NONE"

\* C1: a port under automatic detection leaves Floating (inputs to Connection,
\* outputs to WaitingForPin6Low) only on the DCM tick at which the same
\* non-zero event mask has been observed on 35 consecutive ticks; a differing
\* mask restarts the count and a zero mask never advances (both are how the
\* history counts the run); while the port is in Floating the count is below
\* 35 and its classification is None/None.
C1_Step ==
  /\ \A p \in InPorts :
       /\ (InputPort[p].State = "DCM_FLOATING" /\ InputPort'[p].State = "DCM_CONNECTION")
            => (hist'.inRun[p] = 35 /\ hist'.inMask[p] # 0)
       /\ (InputPort'[p].State = "DCM_FLOATING" /\ InputPort'[p].FSMEnabled = 1)
            => /\ hist'.inRun[p] < 35
               /\ hist'.manual[p] \/ (pAnalog'.InDcm[p] = "TYPE_NONE"
                                      /\ pAnalog'.InConn[p] = "CONN_NONE")
  /\ \A p \in OutPorts :
       /\ (OutputPort[p].State = "DCM_FLOATING"
           /\ OutputPort'[p].State = "DCM_WAITING_FOR_PIN6_LOW")
            => (hist'.outRun[p] = 35 /\ hist'.outMask[p] # 0)
       /\ OutputPort'[p].State = "DCM_FLOATING"
            => /\ hist'.outRun[p] < 35
               /\ pAnalog'.OutDcm[p] = "TYPE_NONE"
               /\ pAnalog'.OutConn[p] = "CONN_NONE"

C1_LeavesFloatingAfter35 == [][C1_Step]_vars

\* an input and an output port have just left Floating after a run that was
\* restarted at least once (the environment changed during the run)
C1_Witness ==
  /\ InputPort[0].State = "DCM_CONNECTION"
  /\ hist.inRun[0] = 35
  /\ OutputPort[0].State = "DCM_WAITING_FOR_PIN6_LOW"
  /\ budget.env < MaxEnvChanges

\* C3 (as stated): the terminal classification is in the results table one
\* DCM tick after the steady-time window closed.
C3_WithinOneTick ==
  /\ \A p \in InPorts : hist.inSince[p] >= 1 => ~InNone(p)
  /\ \A p \in OutPorts : hist.outSince[p] >= 1 => ~OutNone(p)

\* C3 (amended): with the signature stable and no command on the port, an
\* input port is classified on the second tick after the window closed
\* (Connection, then the classifying state), an output port on the third
\* (WaitingForPin6Low takes two ticks, then Connection) or, when the active
\* probe is used, on the fifth; never earlier.
C3_ClassifiedAfterLadder ==
  /\ \A p \in InPorts :
       /\ hist.inSince[p] \in {0, 1} => InNone(p)
       /\ hist.inSince[p] >= 2 => ~InNone(p)
  /\ \A p \in OutPorts :
       /\ hist.outSince[p] \in {0, 1, 2} => OutNone(p)
       /\ hist.outSince[p] \in {3, 4} =>
            IF OutputPort[p].State = "DCM_WAITING_FOR_PIN5_LOW"
            THEN OutNone(p) ELSE ~OutNone(p)
       /\ hist.outSince[p] >= 5 => ~OutNone(p)

C3_Witness ==
  /\ hist.inSince[0] = 2 /\ ~InNone(0)
  /\ hist.outSince[0] = 5 /\ pAnalog.OutDcm[0] = "TYPE_NEWTACHO"

\* C4: pin 2 low, pins 5 and 6 high and pin 1 below the near-ground count,
\* held over the steady-time window, end in TYPE_NXT_COLOR / CONN_NXT_COLOR.
C4_ColorSignatureClassified ==
  \A p \in InPorts :
    (/\ envIn[p].pin2 = 0 /\ envIn[p].pin5 = 1 /\ envIn[p].pin6 = 1
     /\ envIn[p].pin1 < VtoC(IN1_NEAR_GND)
     /\ hist.inSince[p] >= 2)
    => (pAnalog.InDcm[p] = "TYPE_NXT_COLOR" /\ pAnalog.InConn[p] = "CONN_NXT_COLOR")

\* the floating and the post-probe voltage of what is attached [mV]
EnvFloat(p) == CtoV(envOut[p].v5)
EnvProbe(p) == CtoV(envOut[p].v5p)
EnvBalanced(p) == ~OutOfBalance(envOut[p].v5)

\* C5 (as stated): pin 5 balanced over the window, pin 6 low and a post-probe
\* voltage in the new tacho band end in NewTacho / Tacho.
C5_BalancedPin6LowNewTacho ==
  \A p \in OutPorts :
    (/\ EnvBalanced(p) /\ envOut[p].pin6 = 0
     /\ EnvProbe(p) >= OUT5_NEWTACHO_LOW1 /\ EnvProbe(p) < OUT5_NEWTACHO_HIGH1
     /\ hist.outSince[p] >= 5)
    => (pAnalog.OutDcm[p] = "TYPE_NEWTACHO" /\ pAnalog.OutConn[p] = "CONN_OUTPUT_TACHO")

\* C5 (amended): the probe is taken when the floating voltage is at or above
\* the balance band, outside the IIC band and not "balanced with pin 6 low";
\* then a post-probe voltage in the new tacho band ends in NewTacho / Tacho on
\* the fifth tick after the window closed.  Pin 5 balanced (2400 .. 2600 mV)
\* with pin 6 low ends in Error / Error.
C5_ProbeNewTacho ==
  \A p \in OutPorts :
    /\ (/\ EnvFloat(p) >= OUT5_BALANCE_LOW
        /\ ~(EnvFloat(p) <= OUT5_BALANCE_HIGH /\ envOut[p].pin6 = 0)
        /\ ~(EnvFloat(p) >= OUT5_IIC_LOW /\ EnvFloat(p) <= OUT5_IIC_HIGH)
        /\ EnvProbe(p) >= OUT5_NEWTACHO_LOW1 /\ EnvProbe(p) < OUT5_NEWTACHO_HIGH1
        /\ hist.outSince[p] >= 5)
       => (/\ pAnalog.OutDcm[p] = "TYPE_NEWTACHO"
           /\ pAnalog.OutConn[p] = "CONN_OUTPUT_TACHO"
           /\ OutputPort[p].Connected = 1)
    /\ (/\ EnvFloat(p) >= OUT5_BALANCE_LOW /\ EnvFloat(p) <= OUT5_BALANCE_HIGH
        /\ envOut[p].pin6 = 0
        /\ hist.outSince[p] >= 3)
       => (pAnalog.OutDcm[p] = "TYPE_ERROR" /\ pAnalog.OutConn[p] = "CONN_ERROR")

C5_Witness ==
  /\ envOut[0] = OutNewTacho
  /\ hist.outSince[0] >= 5
  /\ pAnalog.OutDcm[0] = "TYPE_NEWTACHO"
  /\ OutputPort[0].Value5Low = EnvProbe(0)

\* the drawn ladder input has just been evaluated by one DCM tick
Evaluated(State) == hist.steps = 1 /\ hist.drawn = State

\* C2: in Connection the next state follows the debounced mask by fixed
\* priority: pin 2 low gives Pin2Low, otherwise pin 1 loaded gives Pin1Loaded,
\* otherwise pin 6 high gives Pin6High, otherwise pin 5 low gives Pin5Low, and
\* an empty mask returns to Init.
C2_ConnectionPriority ==
  Evaluated("DCM_CONNECTION") =>
    LET e == InputPort[0].Event
        pin2 == Bit(e, INPUT_PORT_PIN2)
        pin1 == Bit(e, INPUT_PORT_VALUE)
        pin6 == Bit(e, INPUT_PORT_PIN6)
        pin5 == Bit(e, INPUT_PORT_PIN5)
    IN  /\ pin2 => InputPort[0].State = "DCM_PIN2_LOW"
        /\ (~pin2 /\ pin1) => InputPort[0].State = "DCM_PIN1_LOADED"
        /\ (~pin2 /\ ~pin1 /\ pin6) => InputPort[0].State = "DCM_PIN6_HIGH"
        /\ (~pin2 /\ ~pin1 /\ ~pin6 /\ pin5) => InputPort[0].State = "DCM_PIN5_LOW"
        /\ (~pin2 /\ ~pin1 /\ ~pin6 /\ ~pin5) => InputPort[0].State = "DCM_INIT"

\* pin 1 loaded wins over pin 6 high and pin 5 low, all three set
C2_Witness ==
  /\ Evaluated("DCM_CONNECTION")
  /\ InputPort[0].Event = SetBit(SetBit(SetBit(0, INPUT_PORT_VALUE), INPUT_PORT_PIN6),
                                 INPUT_PORT_PIN5)
  /\ InputPort[0].State = "DCM_PIN1_LOADED"

\* Pin2Low with pin 5 high and pin 6 low, pin 1 neither near ground nor near 5V
C6_Case ==
  /\ Evaluated("DCM_PIN2_LOW")
  /\ ~Bit(InputPort[0].Event, INPUT_PORT_PIN5)
  /\ ~Bit(InputPort[0].Event, INPUT_PORT_PIN6)
  /\ envIn[0].pin1 >= VtoC(IN1_NEAR_GND)
  /\ envIn[0].pin1 <= VtoC(IN1_NEAR_5V)

C7_Direct(F, pin6low) ==
  IF \/ (F >= OUT5_BALANCE_LOW /\ F <= OUT5_BALANCE_HIGH /\ pin6low)
     \/ F < OUT5_NEAR_GND
     \/ (F >= OUT5_LIGHT_LOW /\ F <= OUT5_LIGHT_HIGH)
     \/ (F >= OUT5_IIC_LOW /\ F <= OUT5_IIC_HIGH)
  THEN << "TYPE_ERROR", "CONN_ERROR" >>
  ELSE IF F >= OUT5_BALANCE_LOW THEN << >>
  ELSE IF F >= OUT5_DUMP_LOW /\ F < OUT5_DUMP_HIGH
  THEN << "TYPE_UNKNOWN", "CONN_OUTPUT_DUMB" >>
  ELSE IF F >= OUT5_INTELLIGENT_LOW2 /\ F < OUT5_INTELLIGENT_HIGH2
  THEN << "TYPE_UNKNOWN", "CONN_OUTPUT_INTELLIGENT" >>
  ELSE IF F >= OUT5_NEWTACHO_LOW2 /\ F < OUT5_NEWTACHO_HIGH2
  THEN << "TYPE_NEWTACHO", "CONN_OUTPUT_TACHO" >>
  ELSE IF F >= OUT5_MINITACHO_LOW2 /\ F < OUT5_MINITACHO_HIGH2
  THEN << "TYPE_MINITACHO", "CONN_OUTPUT_TACHO" >>
  ELSE << "TYPE_TACHO", "CONN_OUTPUT_TACHO" >>

\* C7: in output Connection, snapshots less than 50 mV apart take the direct
\* ladder (classification by Value5Float alone, or the active probe); a
\* difference of 50 mV or more takes the new actuator branch: Value5Low inside
\* the band (100 .. 2400 mV, exclusive) gives Unknown / OutputDumb with
\* Value5Low stored as the code, outside it Error / Error.
C7_SnapshotBranches ==
  Evaluated("DCM_CONNECTION_OUT") =>
    LET F == OutputPort[0].Value5Float
        L == OutputPort[0].Value5Low
        class == << pAnalog.OutDcm[0], pAnalog.OutConn[0] >>
        direct == C7_Direct(F, Bit(OutputPort[0].Event, OUTPUT_PORT_PIN6))
    IN  IF F - L < 50 /\ L - F < 50
        THEN IF direct = << >>
             THEN /\ OutputPort[0].State = "DCM_WAITING_FOR_PIN5_LOW"
                  /\ OutNone(0)
                  /\ OutputPort[0].Connected = 0
             ELSE /\ class = direct
                  /\ OutputPort[0].State = "DCM_CONNECTED_WAITING_FOR_PORT_OPEN"
                  /\ OutputPort[0].Connected = 1
                  /\ pAnalog.OutPin5Low[0] =
                       IF direct = << "TYPE_UNKNOWN", "CONN_OUTPUT_DUMB" >> THEN F ELSE 0
        ELSE /\ OutputPort[0].State = "DCM_CONNECTED_WAITING_FOR_PORT_OPEN"
             /\ OutputPort[0].Connected = 1
             /\ IF L > OUT5_NEAR_GND /\ L < OUT5_BALANCE_LOW
                THEN /\ class = << "TYPE_UNKNOWN", "CONN_OUTPUT_DUMB" >>
                     /\ pAnalog.OutPin5Low[0] = L
                ELSE /\ class = << "TYPE_ERROR", "CONN_ERROR" >>
                     /\ pAnalog.OutPin5Low[0] = 0

\* snapshots exactly 50 mV apart: the new actuator branch stores Value5Low
C7_Witness ==
  /\ Evaluated("DCM_CONNECTION_OUT")
  /\ OutputPort[0].Value5Float - OutputPort[0].Value5Low = 50
  /\ pAnalog.OutDcm[0] = "TYPE_UNKNOWN"
  /\ pAnalog.OutPin5Low[0] = OutputPort[0].Value5Low

\* C8: the active probe gives the same tacho variant whenever the measured
\* Value5Low is the same, whatever an earlier cycle left in the port record
\* and in the results table: two ports finishing the probe with the same
\* post-probe voltage get the same classification.
C8_ProbeDependsOnValue5Low ==
  Evaluated("DCM_WAITING_FOR_PIN5_LOW") =>
    /\ \A p \in {0, 1} :
         /\ OutputPort[p].Value5Low = EnvProbe(p)
         /\ pAnalog.OutConn[p] = "CONN_OUTPUT_TACHO"
         /\ pAnalog.OutDcm[p] \in {"TYPE_NEWTACHO", "TYPE_MINITACHO", "TYPE_TACHO"}
    /\ OutputPort[0].Value5Low = OutputPort[1].Value5Low
         => pAnalog.OutDcm[0] = pAnalog.OutDcm[1]

\* the same post-probe voltage on two ports with different leftovers
C8_Witness ==
  /\ Evaluated("DCM_WAITING_FOR_PIN5_LOW")
  /\ OutputPort[0].Value5Low = OutputPort[1].Value5Low
  /\ OutputPort[0].Value5Float # OutputPort[1].Value5Float
  /\ pAnalog.OutPin5Low[0] # pAnalog.OutPin5Low[1]
  /\ pAnalog.OutDcm[0] = "TYPE_MINITACHO"
  /\ pAnalog.OutDcm[1] = "TYPE_MINITACHO"

DcmStep == hist'.dcmAt # hist.dcmAt
AdcStep == hist'.adcAt # hist.adcAt

\* C9: the DCM tick that finds a port's colour session complete copies the 54
\* bytes of that port's session buffer, index by index, into the port's colour
\* record, leaves the buffer as it was and leaves the session stopped (engine
\* state 0, port no longer holding the colour timer); the record of a port
\* changes on no other step, so no other port's record is changed.
C9_Step ==
  \A p \in InPorts :
    IF DcmStep /\ Completes(Prog, p)
    THEN /\ \A i \in BufIdx : pAnalog'.NxtCol[p][i] = NxtColorBuffer[p][i]
         /\ NxtColorBuffer'[p] = NxtColorBuffer[p]
         /\ NxtColor'[p].State = 0
         /\ p \notin NxtColorInitInUse'
    ELSE pAnalog'.NxtCol[p] = pAnalog.NxtCol[p]

C9_PayloadCopied == [][C9_Step]_vars

\* a session on port 0 has run to completion: its record holds the 54 bytes
\* the sensor sent, the session is stopped, port 1's record differs
C9_Witness ==
  /\ 0 \in hist.done
  /\ InputPort[0].State = "DCM_CONNECTED_WAITING_FOR_PIN2_HIGH"
  /\ 0 \notin NxtColorInitInUse
  /\ \A i \in BufIdx : pAnalog.NxtCol[0][i] = SensorByte(0, i)
  /\ pAnalog.NxtCol[1] # pAnalog.NxtCol[0]

\* C10: once a colour session has been started, has completed and has been
\* stopped, every end of an ADC pass at which no port is marked colour-active
\* (NxtColorActive) leaves the colour-aware scheduling flag cleared, and the
\* flag stays cleared for as long as no port is marked; an end of pass with a
\* marked port sets it, and no other step changes it.
C10_Step ==
  hist.done # {} =>
    LET marked == \E p \in InPorts : NxtColorActive[p] # 0
    IN  IF AdcStep /\ NxtPointer' = 0
        THEN Color' = IF marked THEN 1 ELSE 0
        ELSE Color' = Color

C11_Step ==
  /\ Color \in {0, 1}
  /\ Color' # Color => (AdcStep /\ NxtPointer' = 0)
  /\ (AdcStep /\ NxtPointer # 0) => (hist.scheme = Color /\ hist'.scheme = Color)
  /\ (AdcStep /\ Color = 0) => NxtPointer < SCHEMESIZE1
  /\ (AdcStep /\ Color = 1) => NxtPointer < SCHEMESIZE2

C11_ScheduleChangesAtBoundary == [][C11_Step]_vars

\* the schedule was switched to the colour-aware one at a pass boundary and a
\* pass of it is under way, beyond the length of the plain schedule
C11_Witness ==
  /\ Color = 1
  /\ hist.scheme = 1
  /\ NxtPointer > SCHEMESIZE1

\* the port's colour session runs: started by the DCM, not stopped, and the
\* engine has not finished the exchange
SessionRuns(p) == p \in hist.started /\ NxtColor[p].State # 0

\* C12 (as stated): a pass of the ADC scheduler that begins while a colour
\* session runs on some input port uses the colour-aware schedule.
C12_Stated ==
  (AdcStep /\ NxtPointer = 0 /\ \E p \in InPorts : SessionRuns(p)) => Color = 1

C12_ColorAwareWhileSessionRuns == [][C12_Stated]_vars

\* C12 (amended): a port is marked colour-active from the tick that finds its
\* session complete until the port's DCM next runs Init, and at no other time;
\* the schedule of a pass is the one chosen at the end of the pass before it:
\* the colour-aware schedule when some port was marked then, the plain one
\* otherwise.  A session that runs on an unmarked port (the first one after
\* the port left Init) does not select the colour-aware schedule.
C12_Step ==
  /\ \A p \in InPorts : (NxtColorActive'[p] # 0) <=> (p \in hist'.marked)
  /\ \A p \in InPorts : NxtColorActive'[p] # NxtColorActive[p] => DcmStep
  /\ IF AdcStep /\ NxtPointer' = 0
     THEN Color' = IF hist.marked # {} THEN 1 ELSE 0
     ELSE Color' = Color

C12_ScheduleFollowsMark == [][C12_Step]_vars

\* a pass of the plain schedule is under way while the session of port 0 is
\* transferring and no port is marked
C12_Witness ==
  /\ SessionRuns(0) /\ NxtColor[0].State >= 6
  /\ hist.marked = {}
  /\ Color = 0 /\ hist.scheme = 0 /\ NxtPointer # 0

\* C13: the one colour timer runs exactly while some port has a session that
\* was started and not stopped, and the ports holding it are exactly those
\* ports; a DCM tick that starts a session while another port's session stays
\* started leaves the running timer's expiry as it was (no restart), and a
\* tick that stops one session while another stays started leaves it running.
C13_Step ==
  /\ NxtColorTimerOn' <=> (hist'.started # {})
  /\ NxtColorInitInUse' = hist'.started
  /\ (DcmStep /\ \E q \in hist.started : ~Stops(Prog, q))
       => (NxtColorTimerOn' /\ hist'.colAt = hist.colAt)
  /\ hist'.colAt # hist.colAt
       => \/ ~DcmStep /\ NxtColorTimerOn /\ hist'.colAt = hist.colAt + NxtColorTime
          \/ DcmStep /\ hist'.started # {} /\ hist'.colAt = hist.dcmAt + NxtColorTime

C13_OneColorTimer == [][C13_Step]_vars

\* two sessions were started one DCM tick apart; the session of port 0 has
\* completed and was stopped, the session of port 1 keeps the timer running
C13_Witness ==
  /\ 0 \in hist.done /\ 0 \notin hist.started
  /\ SessionRuns(1)
  /\ NxtColorTimerOn
  /\ NxtColorInitInUse = {1}

\* the kinds of step: the three timer handlers and the command paths
ColStep == ~DcmStep /\ hist'.colAt # hist.colAt
CmdStep == budget' # budget

\* the fields of the results table by group
Class(a, p) == << a.InDcm[p], a.InConn[p] >>
OutClass(a, p) == << a.OutDcm[p], a.OutConn[p], a.OutPin5Low[p] >>
Ring(a, p) == << a.LogIn[p], a.LogOut[p], a.Actual[p] >>

\* the DCM record of a port without the fields the command paths own
DcmRecord(r) == << r.Value, r.Connected, r.State, r.Event, r.Timer >>

\* C14 (as stated): every field has one writing handler: a port's record and
\* its classification change only on a DCM tick, the sample ring indices only
\* on an ADC interrupt.
C14_Stated ==
  /\ \A p \in InPorts :
       /\ InputPort'[p] # InputPort[p] => DcmStep
       /\ Class(pAnalog', p) # Class(pAnalog, p) => DcmStep
       /\ Ring(pAnalog', p) # Ring(pAnalog, p) => AdcStep
  /\ \A p \in OutPorts :
       /\ OutputPort'[p] # OutputPort[p] => DcmStep
       /\ OutClass(pAnalog', p) # OutClass(pAnalog, p) => DcmStep

C14_SingleWriter == [][C14_Stated]_vars

\* C14 (amended): the writers of each group of fields.
\*   sample ring indices of a port: the ADC interrupt at the end of a pass
\*     (port not marked colour-active) and the DCM tick that sweeps the port
\*     in Connection (reset to 0);
\*   classification of an input port: the DCM tick, the 't' write and the
\*     test-mode ioctl; of an output port: the DCM tick and the ioctl;
\*   DCM record of an input port: the DCM tick, and Device3Write and the
\*     ioctl for State / Timer; FSMEnabled and Cmd: the command paths only;
\*   colour payload record and the colour-active marks: the DCM tick only;
\*   Updated, the schedule flag and pointer, the latched commands: the ADC
\*     interrupt only;
\*   the colour tick writes none of them.
C14_Step ==
  /\ \A p \in InPorts :
       /\ Ring(pAnalog', p) # Ring(pAnalog, p) =>
            \/ AdcStep /\ NxtPointer' = 0 /\ NxtColorActive[p] = 0
            \/ /\ DcmStep /\ Swept(Prog, p) /\ InputPort[p].State = "DCM_CONNECTION"
               /\ Ring(pAnalog', p) = << 0, 0, 0 >>
       /\ Class(pAnalog', p) # Class(pAnalog, p) => (DcmStep \/ CmdStep)
       /\ DcmRecord(InputPort'[p]) # DcmRecord(InputPort[p]) => (DcmStep \/ CmdStep)
       /\ InputPort'[p].FSMEnabled # InputPort[p].FSMEnabled => CmdStep
       /\ InputPort'[p].Cmd # InputPort[p].Cmd => CmdStep
       /\ pAnalog'.NxtCol[p] # pAnalog.NxtCol[p] => DcmStep
       /\ NxtColorActive'[p] # NxtColorActive[p] => DcmStep
       /\ pAnalog'.Updated[p] # pAnalog.Updated[p] => AdcStep
  /\ \A p \in OutPorts :
       /\ OutputPort'[p] # OutputPort[p] => (DcmStep \/ CmdStep)
       /\ OutClass(pAnalog', p) # OutClass(pAnalog, p) => (DcmStep \/ CmdStep)
  /\ << Color, NxtPointer, Nxtcolor, NxtcolorLatchedCmd >>'
       # << Color, NxtPointer, Nxtcolor, NxtcolorLatchedCmd >> => AdcStep
  /\ ColStep => /\ pAnalog' = pAnalog
                /\ InputPort' = InputPort
                /\ OutputPort' = OutputPort

C14_Writers == [][C14_Step]_vars

\* the ring indices of the dumb sensor's port were advanced by the ADC
\* interrupts, reset by the DCM tick in Connection and advanced again, and
\* the port's classification was written by the DCM tick; the record of a
\* colour port was written by Device3Write
C14_Witness ==
  /\ pAnalog.InConn[DumbPort] = "CONN_INPUT_DUMB"
  /\ pAnalog.LogIn[DumbPort] > 0
  /\ pAnalog.LogIn[DumbPort] < pAnalog.LogIn[3]
  /\ \E p \in ColorPorts : InputPort[p].Cmd # 0

\* a DCM tick, also where time is not modelled: the tick is the one handler
\* that spends none of the budgets
TickStep == DcmStep \/ (~Timed /\ budget' = budget /\ hist'.late = hist.late)

Declared(p) == InputPort[p].Connected = 0 /\ InputPort'[p].Connected = 1
OutDeclared(p) == OutputPort[p].Connected = 0 /\ OutputPort'[p].Connected = 1

InWritten(a, p) ==
  a.InDcm[p] \notin {"0", "TYPE_NONE"} /\ a.InConn[p] \notin {"0", "CONN_NONE"}
OutWritten(a, p) ==
  a.OutDcm[p] \notin {"0", "TYPE_NONE"} /\ a.OutConn[p] \notin {"0", "CONN_NONE"}

\* C15 (as stated): a step that declares a port Connected leaves a
\* classification pair written for that port.
C15_Stated ==
  /\ \A p \in InPorts : Declared(p) => InWritten(pAnalog', p)
  /\ \A p \in OutPorts : OutDeclared(p) => OutWritten(pAnalog', p)

C15_PairWrittenWhenConnected == [][C15_Stated]_vars

\* C15 (amended): only a DCM tick declares a port Connected.  A tick that
\* declares an input port under automatic detection writes the port's pair in
\* the same tick, except the touch candidate of Pin2Low, whose pair is written
\* by TouchCheck when it ends; a tick that declares a port whose detection is
\* off (Disabled) leaves the pair as it was.  A tick that declares an output
\* port writes the port's pair in the same tick.
C15_Step ==
  /\ \A p \in InPorts :
       /\ Declared(p) =>
            /\ TickStep
            /\ IF InputPort[p].FSMEnabled = 0
               THEN /\ InputPort'[p].State = "DCM_DISABLED"
                    /\ Class(pAnalog', p) = Class(pAnalog, p)
               ELSE IF InputPort'[p].State = "DCM_NXT_TOUCH_CHECK"
               THEN Class(pAnalog', p) = Class(pAnalog, p)
               ELSE InWritten(pAnalog', p)
       /\ ( /\ TickStep
            /\ InputPort[p].FSMEnabled = 1
            /\ InputPort[p].State = "DCM_NXT_TOUCH_CHECK"
            /\ InputPort'[p].State # "DCM_NXT_TOUCH_CHECK" ) =>
            /\ InputPort'[p].Connected = 1
            /\ InWritten(pAnalog', p)
  /\ \A p \in OutPorts :
       OutDeclared(p) => TickStep /\ OutWritten(pAnalog', p)

C15_PairWrittenByDeclaringTick == [][C15_Step]_vars

\* an input port under automatic detection and an output port, both declared
\* Connected by ticks that wrote their pairs
C15_Witness ==
  /\ InputPort[0].Connected = 1
  /\ InputPort[0].FSMEnabled = 1
  /\ pAnalog.InConn[0] = "CONN_INPUT_DUMB"
  /\ OutputPort[0].Connected = 1
  /\ pAnalog.OutConn[0] = "CONN_OUTPUT_TACHO"

\* a port whose detection was turned off with nothing attached: Connected
\* without a pair
C15_DisabledWitness ==
  /\ InputPort[0].Connected = 1
  /\ InputPort[0].FSMEnabled = 0
  /\ InNone(0)

\* C16: a DCM tick that sweeps the ports leaves a port whose automatic
\* detection is off in Disabled with Connected = 1 and Timer = 0, whatever
\* state it was in and whatever is attached to it: the rest of the port's
\* record, its pins and its classification pair are as before the tick.
C16_Step ==
  \A p \in InPorts :
    (TickStep /\ Running(Prog) /\ InputPort[p].FSMEnabled = 0) =>
      /\ InputPort'[p] = [InputPort[p] EXCEPT !.State = "DCM_DISABLED",
                                              !.Timer = 0,
                                              !.Connected = 1]
      /\ Class(pAnalog', p) = Class(pAnalog, p)
      /\ InputPortPin'[p] = InputPortPin[p]

C16_DisabledSkipsSampling == [][C16_Step]_vars

\* a sensor was attached to a port that had been disabled while it was open:
\* the port is Connected in Disabled and the sensor was not classified
C16_Witness ==
  /\ InputPort[0].FSMEnabled = 0
  /\ InputPort[0].State = "DCM_DISABLED"
  /\ InputPort[0].Connected = 1
  /\ envIn[0] = InDumbSensor
  /\ InNone(0)

\* the pins of an input port as InputPortFloat leaves them
FloatPins == [Pin5 |-> "float", Pin6 |-> "float", Buf |-> "high"]

\* the write that turns a port's automatic detection off
Disables(p) ==
  CmdStep /\ InputPort[p].FSMEnabled = 1 /\ InputPort'[p].FSMEnabled = 0

\* C17 (as stated): the write that disables a port's automatic detection
\* leaves all pins of the port floating.
C17_Stated == \A p \in InPorts : Disables(p) => InputPortPin'[p] = FloatPins

C17_DisableFloatsPins == [][C17_Stated]_vars

\* C17 (amended): the write that disables a port's automatic detection
\* changes only the port's enable flag: pins, DCM state and classification
\* are as before.  Every DCM sweep that finds the port disabled leaves its
\* pins and its classification as they are, from whichever state the port
\* was in.
C17_Step ==
  \A p \in InPorts :
    /\ Disables(p) =>
         /\ InputPort'[p] = [InputPort[p] EXCEPT !.FSMEnabled = 0]
         /\ InputPortPin'[p] = InputPortPin[p]
         /\ Class(pAnalog', p) = Class(pAnalog, p)
    /\ (TickStep /\ Running(Prog) /\ InputPort[p].FSMEnabled = 0) =>
         /\ InputPort'[p].State = "DCM_DISABLED"
         /\ InputPortPin'[p] = InputPortPin[p]
         /\ Class(pAnalog', p) = Class(pAnalog, p)

C17_DisableKeepsPins == [][C17_Step]_vars

\* pin 5 of a connected port was driven high through the pin-poke channel,
\* the port was disabled and swept: the pin is still driven
C17_Witness ==
  /\ InputPort[0].FSMEnabled = 0
  /\ InputPort[0].State = "DCM_DISABLED"
  /\ InputPortPin[0].Pin5 = "high"

\* C18: a port whose detection was cancelled holds no colour session: a
\* disabled port that has been swept into Disabled is not among the ports
\* that hold the colour timer, and in test mode no port holds it and the
\* colour timer is stopped.
C18_SessionStoppedOnCancel ==
  /\ \A p \in InPorts :
       (InputPort[p].FSMEnabled = 0 /\ InputPort[p].State = "DCM_DISABLED") =>
         p \notin NxtColorInitInUse
  /\ TestMode = 1 => (NxtColorInitInUse = {} /\ ~NxtColorTimerOn)

\* the pins of an output port as OutputPortFloat leaves them
OutFloatPins == [Pin1 |-> "low", Pin2 |-> "low", Pin5W |-> "low", Pin6 |-> "float"]

\* C19: the switch into test mode leaves the pins of every input and output
\* port floating and every classification None/None, and a DCM tick in test
\* mode changes no port's DCM record and no classification, and leaves test
\* mode on.
C19_Step ==
  /\ (TestMode = 0 /\ TestMode' = 1) =>
       /\ CmdStep
       /\ \A p \in InPorts :
            /\ InputPortPin'[p] = FloatPins
            /\ pAnalog'.InDcm[p] = "TYPE_NONE" /\ pAnalog'.InConn[p] = "CONN_NONE"
       /\ \A p \in OutPorts :
            /\ OutputPortPin'[p] = OutFloatPins
            /\ pAnalog'.OutDcm[p] = "TYPE_NONE" /\ pAnalog'.OutConn[p] = "CONN_NONE"
  /\ (TickStep /\ TestMode = 1) =>
       /\ InputPort' = InputPort
       /\ OutputPort' = OutputPort
       /\ \A p \in InPorts : Class(pAnalog', p) = Class(pAnalog, p)
       /\ \A p \in OutPorts : OutClass(pAnalog', p) = OutClass(pAnalog, p)
       /\ TestMode' = 1

C19_TestModeHaltsDcm == [][C19_Step]_vars

\* test mode was switched on while a sensor sat on input port 0 and the probe
\* of output port 0 drove pin 5: the pins float, nothing is classified and
\* both ports are in the DCM states the switch found them in
C19_Witness ==
  /\ TestMode = 1
  /\ envIn[0] = InDumbSensor
  /\ InputPort[0].State = "DCM_CONNECTED_WAITING_FOR_PIN1_TO_FLOAT"
  /\ OutputPort[0].State = "DCM_WAITING_FOR_PIN5_LOW"
  /\ \A p \in InPorts : InputPortPin[p] = FloatPins /\ InNone(p)
  /\ \A p \in OutPorts : OutputPortPin[p] = OutFloatPins /\ OutNone(p)

\* the type characters the 't' command recognises and the pair each forces
ForcedTypes == {"CONN_NXT_IIC", "CONN_NXT_DUMB", "CONN_INPUT_DUMB", "CONN_NONE"}
ForcedPair(Char) ==
  CASE Char = "CONN_NXT_IIC" -> << "TYPE_NXT_IIC", "CONN_NXT_IIC" >>
    [] Char = "CONN_NXT_DUMB" -> << "TYPE_NXT_LIGHT", "CONN_NXT_DUMB" >>
    [] Char = "CONN_INPUT_DUMB" -> << "TYPE_TOUCH", "CONN_INPUT_DUMB" >>
    [] Char = "CONN_NONE" -> << "TYPE_NONE", "CONN_NONE" >>

\* the program state after a 't' write with Char for port p
AfterType(p, Char) == Device1WriteBuf(Prog, "t", [NoChange EXCEPT ![p] = Char])

\* C20: in every state in which the control channel may be written, a 't'
\* write with a recognised type character changes nothing on a port whose
\* automatic detection is enabled and forces the character's pair on a port
\* whose detection is disabled.
C20_TypeHonouredIffDisabled ==
  budget.cmd > 0 =>
    \A p \in InPorts, Char \in ForcedTypes :
      IF InputPort[p].FSMEnabled = 1
      THEN AfterType(p, Char) = Prog
      ELSE Class(AfterType(p, Char).pAnalog, p) = ForcedPair(Char)

\* what the 't' write does: it is honoured on a disabled port that is
\* Connected and changes nothing otherwise; a disabled port is Connected
\* once a DCM sweep has put it in Disabled
C20_TypeHonouredWhenConnected ==
  \A p \in InPorts, Char \in ForcedTypes :
    /\ IF InputPort[p].FSMEnabled = 0 /\ InputPort[p].Connected = 1
       THEN Class(AfterType(p, Char).pAnalog, p) = ForcedPair(Char)
       ELSE AfterType(p, Char) = Prog
    /\ (InputPort[p].FSMEnabled = 0 /\ InputPort[p].State = "DCM_DISABLED"
        /\ Running(Prog)) => InputPort[p].Connected = 1

\* C21: a DCM tick that sweeps a connected port under automatic detection
\* leaves the port's classification pair as it is, and clears Connected (back
\* to Init) only on a tick on which the port shows the open condition its
\* state waits for; the pair next changes when Init clears it.
C21_Step ==
  /\ \A p \in InPorts :
       (TickStep /\ Swept(Prog, p) /\ InputPort[p].Connected = 1) =>
         /\ Class(pAnalog', p) = Class(pAnalog, p)
         /\ InputPort'[p].Connected = 0 =>
              ReleaseSeen(p) /\ InputPort'[p].State = "DCM_INIT"
  /\ \A p \in OutPorts :
       (TickStep /\ Running(Prog) /\ OutputPort[p].Connected = 1) =>
         /\ OutClass(pAnalog', p) = OutClass(pAnalog, p)
         /\ OutputPort'[p].Connected = 0 =>
              /\ ~OutOfBalance(OutPin5(Prog, p)) /\ POUTRead6(Prog, p) # 0
              /\ OutputPort'[p].State = "DCM_INIT"

C21_FrozenUntilOpen == [][C21_Step]_vars

\* the channel a reading slot is mapped to
SlotChannel(Slot) ==
  IF Slot < INPUTADC THEN InputReadMap[Slot + 1]
  ELSE InputReadMap[((Slot - INPUTADC) \div 4) + INPUTS + 1]

\* C22: every reading the scheduler has stored, in a pin slot, in the
\* rotating slot or in a colour raw field, is the conversion of the channel
\* mapped to that slot.
C22_ReadingsMatchSlots ==
  \A Slot \in ReadingSlots :
     hist.adc.src[Slot] \in {NoSlot, SlotChannel(Slot)}

\* both schedules have run and the plain one runs again: all sixteen slots of
\* pInputs and the four raw fields of a colour port hold readings
C22_Witness ==
  /\ Color = 0
  /\ \A Slot \in 0 .. (INPUTADC - 1) : hist.adc.src[Slot] # NoSlot
  /\ \E p \in ColorPorts : \A k \in 0 .. 3 : hist.adc.src[ColorSlot(p, k)] # NoSlot

\* the DCM tick on which the colour timeout of port p expires: the port is in
\* ColorBusy, the engine is not ready and the tick counts past the timeout
TimesOut(p) ==
  /\ TickStep
  /\ Swept(Prog, p)
  /\ InputPort[p].State = "DCM_NXT_COLOR_BUSY"
  /\ ~NxtColorCommReady(Prog, p)
  /\ Inc8(InputPort[p].Timer) > ColorTimeoutTicks

\* the session of port p is torn down and the port has left ColorBusy
TornDown(p) ==
  /\ NxtColor'[p].State = 0
  /\ p \notin NxtColorInitInUse'
  /\ NxtColorTimerOn' = (NxtColorInitInUse' # {})
  /\ InputPort'[p].State = "DCM_CONNECTED_WAITING_FOR_PIN2_HIGH"
  /\ InputPort'[p].Timer = 0

\* C23 (as stated): the tick on which the timeout expires tears the session
\* down, leaves ColorBusy and copies the session buffer into the port's
\* colour record.
C23_Stated ==
  \A p \in InPorts :
    TimesOut(p) => TornDown(p) /\ pAnalog'.NxtCol[p] = NxtColorBuffer[p]

C23_TimeoutCopiesPayload == [][C23_Stated]_vars

\* C23 (amended): the tick on which the timeout expires (the 51st tick in
\* ColorBusy) tears the session down and leaves ColorBusy for the wait on
\* pin 2; the port's colour record, its colour-active mark and its colour
\* command are as before: only the ready branch copies the buffer.  A tick
\* before the timeout that finds the engine not ready leaves the port in
\* ColorBusy.
C23_Step ==
  \A p \in InPorts :
    /\ TimesOut(p) =>
         /\ TornDown(p)
         /\ InputPort[p].Timer = ColorTimeoutTicks
         /\ pAnalog'.NxtCol[p] = pAnalog.NxtCol[p]
         /\ NxtColorActive'[p] = NxtColorActive[p]
         /\ NxtcolorCmd'[p] = NxtcolorCmd[p]
         /\ NxtColorBuffer'[p] = NxtColorBuffer[p]
    /\ ( /\ TickStep /\ Swept(Prog, p)
         /\ InputPort[p].State = "DCM_NXT_COLOR_BUSY"
         /\ ~NxtColorCommReady(Prog, p)
         /\ Inc8(InputPort[p].Timer) <= ColorTimeoutTicks ) =>
         /\ InputPort'[p].State = "DCM_NXT_COLOR_BUSY"
         /\ NxtColor'[p] = NxtColor[p]

C23_TimeoutTearsDown == [][C23_Step]_vars

\* the session of the port timed out after the command byte had been put in
\* its buffer: the session is stopped, the timer released, the colour record
\* still empty and the port not marked
C23_Witness ==
  /\ InputPort[TimeoutPort].State = "DCM_CONNECTED_WAITING_FOR_PIN2_HIGH"
  /\ NxtColorActive[TimeoutPort] = 0
  /\ NxtColor[TimeoutPort].State = 0
  /\ ~NxtColorTimerOn
  /\ NxtColorBuffer[TimeoutPort][0] = ColorCmdFull
  /\ pAnalog.NxtCol[TimeoutPort][0] = 0

\* the DCM tick clears Connected of output port p
OutReleases(p) ==
  /\ TickStep
  /\ Running(Prog)
  /\ OutputPort[p].Connected = 1
  /\ OutputPort'[p].Connected = 0

\* C24: an output port waiting in ConnectedWaitingForPortOpen is disconnected
\* (Connected cleared, back to Init) only by a tick that ends a full
\* steady-time window of consecutive ticks on which the port-open signal
\* showed, and a tick on which the signal does not show re-arms the timer.
C24_Step ==
  \A p \in OutPorts :
    /\ OutReleases(p) =>
         /\ OutputPort[p].State = "DCM_CONNECTED_WAITING_FOR_PORT_OPEN"
         /\ OutputPort'[p].State = "DCM_INIT"
         /\ hist'.openRun[p] >= EventStableTicks
    /\ ( /\ TickStep /\ Running(Prog)
         /\ OutputPort[p].State = "DCM_CONNECTED_WAITING_FOR_PORT_OPEN"
         /\ ~PortOpenSeen(p) ) =>
         /\ OutputPort'[p].Timer = 1
         /\ OutputPort'[p].Connected = 1

C24_DisconnectAfterFullWindow == [][C24_Step]_vars

\* the wait-for-release states of the input DCM
InWaitStates ==
  {"DCM_CONNECTED_WAITING_FOR_PIN1_TO_FLOAT", "DCM_CONNECTED_WAITING_FOR_PIN6_LOW",
   "DCM_CONNECTED_WAITING_FOR_PIN5_HIGH", "DCM_CONNECTED_WAITING_FOR_PIN2_HIGH"}

\* the wait-for-release states whose release test is compiled in
InTestedWaitStates == InWaitStates \ {"DCM_CONNECTED_WAITING_FOR_PIN2_HIGH"}

\* the DCM tick sweeps input port p in one of the wait states W
InWaitTick(p, W) == TickStep /\ Swept(Prog, p) /\ InputPort[p].State \in W

\* a tick in one of the wait states W disconnects only at the end of n
\* consecutive ticks that showed the release condition, and a tick on which
\* the condition fails restarts the timer and keeps the port connected
WaitsFor(W, n) ==
  \A p \in InPorts :
    InWaitTick(p, W) =>
      /\ InputPort'[p].Connected = 0 =>
           InputPort'[p].State = "DCM_INIT" /\ hist'.relRun[p] >= n
      /\ ~ReleaseSeen(p) =>
           InputPort'[p].Connected = 1 /\ InputPort'[p].Timer = 0

\* C25 (as stated): each of the four wait-for-release states of the input DCM
\* clears Connected and returns to Init only after its release condition
\* showed on consecutive ticks for the steady-time window of Floating, and
\* restarts its timer on a tick where the condition fails.
C25_Stated == WaitsFor(InWaitStates, ConnectStableTicks)

C25_Step ==
  /\ WaitsFor(InTestedWaitStates, EventStableTicks)
  /\ \A p \in InPorts :
       InWaitTick(p, InTestedWaitStates) =>
         /\ hist'.relRun[p] = InputPort'[p].Timer
         /\ hist'.relRun[p] >= EventStableTicks => InputPort'[p].Connected = 0
  /\ EventStableTicks < ConnectStableTicks

OutEqualTick(p) ==
  /\ TickStep
  /\ Running(Prog)
  /\ OutputPort[p].State = "DCM_CONNECTION"
  /\ Value5Equal(OutputPort[p].Value5Float, OutputPort[p].Value5Low)

\* the tick starts the active probe on output port p
Probed(p) == OutputPort'[p].State = "DCM_WAITING_FOR_PIN5_LOW"

\* the floating snapshots the first four rules of the equal ladder report as
\* Error
OutErrorBand(p) ==
  LET F == OutputPort[p].Value5Float
  IN  \/ /\ F >= OUT5_BALANCE_LOW /\ F <= OUT5_BALANCE_HIGH
         /\ Bit(OutputPort[p].Event, OUTPUT_PORT_PIN6)
      \/ F < OUT5_NEAR_GND
      \/ F >= OUT5_LIGHT_LOW /\ F <= OUT5_LIGHT_HIGH
      \/ F >= OUT5_IIC_LOW /\ F <= OUT5_IIC_HIGH

\* the motor type of a floating snapshot below the balance band
TachoBySubBand(F) ==
  IF F >= OUT5_NEWTACHO_LOW2 /\ F < OUT5_NEWTACHO_HIGH2 THEN "TYPE_NEWTACHO"
  ELSE IF F >= OUT5_MINITACHO_LOW2 /\ F < OUT5_MINITACHO_HIGH2 THEN "TYPE_MINITACHO"
  ELSE "TYPE_TACHO"

\* the motor type of a post-probe snapshot (second table)
TachoByProbe(L) ==
  IF L >= OUT5_NEWTACHO_LOW1 /\ L < OUT5_NEWTACHO_HIGH1 THEN "TYPE_NEWTACHO"
  ELSE IF L >= OUT5_MINITACHO_LOW1 /\ L < OUT5_MINITACHO_HIGH1 THEN "TYPE_MINITACHO"
  ELSE "TYPE_TACHO"

\* C26 (as stated): in the equal-snapshot ladder the active probe is taken by
\* the lowest band only, the band below the tacho sub-bands that are
\* classified directly.
C26_Stated ==
  \A p \in OutPorts :
    (OutEqualTick(p) /\ Probed(p)) => OutputPort[p].Value5Float < OUT5_MINITACHO_LOW2

C26_ProbeInLowestBand == [][C26_Stated]_vars

\* C26 (amended): in the equal-snapshot ladder a floating snapshot below
\* OUT5_BALANCE_LOW that no Error rule takes is classified at once: the dumb
\* and intelligent bands as Unknown, the rest as tacho motors by sub-band,
\* down to the lowest values.  The active probe is taken by the remaining top
\* band, the snapshots at or above OUT5_BALANCE_LOW: the tick drives the pin 5
\* pull (which pulls connection 5 low), declares nothing and restarts the
\* timer; after DCM_LOW_DELAY in WaitingForPin5Low the tick re-measures pin 5,
\* releases the pull, classifies the new snapshot by the second table and
\* declares the port Connected.
C26_Step ==
  \A p \in OutPorts :
    LET F == OutputPort[p].Value5Float
        t == Inc8(OutputPort[p].Timer)
    IN  /\ OutEqualTick(p) =>
             /\ Probed(p) <=> (~OutErrorBand(p) /\ F >= OUT5_BALANCE_LOW)
             /\ Probed(p) =>
                  /\ OutputPortPin'[p].Pin5W = "high"
                  /\ OutputPort'[p].Connected = OutputPort[p].Connected
                  /\ OutputPort'[p].Timer = 0
                  /\ OutClass(pAnalog', p) = OutClass(pAnalog, p)
             /\ (~OutErrorBand(p) /\ F < OUT5_BALANCE_LOW) =>
                  /\ OutputPort'[p].Connected = 1
                  /\ OutputPort'[p].State = "DCM_CONNECTED_WAITING_FOR_PORT_OPEN"
                  /\ IF F >= OUT5_DUMP_LOW /\ F < OUT5_DUMP_HIGH
                     THEN pAnalog'.OutDcm[p] = "TYPE_UNKNOWN"
                          /\ pAnalog'.OutConn[p] = "CONN_OUTPUT_DUMB"
                     ELSE IF F >= OUT5_INTELLIGENT_LOW2 /\ F < OUT5_INTELLIGENT_HIGH2
                     THEN pAnalog'.OutDcm[p] = "TYPE_UNKNOWN"
                          /\ pAnalog'.OutConn[p] = "CONN_OUTPUT_INTELLIGENT"
                     ELSE pAnalog'.OutDcm[p] = TachoBySubBand(F)
                          /\ pAnalog'.OutConn[p] = "CONN_OUTPUT_TACHO"
        /\ ( /\ TickStep /\ Running(Prog)
             /\ OutputPort[p].State = "DCM_WAITING_FOR_PIN5_LOW" ) =>
             IF t >= LowDelayTicks
             THEN /\ OutputPort'[p].Value5Low = CtoV(OutPin5(Prog, p))
                  /\ OutputPortPin'[p].Pin5W = "low"
                  /\ OutputPort'[p].Connected = 1
                  /\ OutputPort'[p].State = "DCM_CONNECTED_WAITING_FOR_PORT_OPEN"
                  /\ pAnalog'.OutDcm[p] = TachoByProbe(OutputPort'[p].Value5Low)
                  /\ pAnalog'.OutConn[p] = "CONN_OUTPUT_TACHO"
             ELSE /\ OutputPort'[p].State = "DCM_WAITING_FOR_PIN5_LOW"
                  /\ OutputPort'[p].Timer = t
                  /\ OutputPort'[p].Connected = OutputPort[p].Connected


C26_ProbeInTopBand == [][C26_Step]_vars

\* the probe has been started on a port whose equal snapshots lie above the
\* balance band: the pull is driven and nothing is declared
C26_Witness ==
  /\ hist.drawn = "DCM_CONNECTION_OUT"
  /\ OutputPort[0].State = "DCM_WAITING_FOR_PIN5_LOW"
  /\ OutputPort[0].Value5Float > OUT5_BALANCE_HIGH
  /\ OutputPortPin[0].Pin5W = "high"
  /\ OutputPort[0].Connected = 0
  /\ OutNone(0)


\* the DCM tick ends the active probe on output port p
ProbeEnds(p) ==
  /\ TickStep
  /\ Running(Prog)
  /\ OutputPort[p].State = "DCM_WAITING_FOR_PIN5_LOW"
  /\ Inc8(OutputPort[p].Timer) >= LowDelayTicks

\* C27: the tick that ends the active probe classifies the measured Value5Low
\* by documented rule 7: lower than OUT5_MINITACHO_LOW1 is a new tacho,
\* otherwise lower than OUT5_MINITACHO_HIGH1 is a mini tacho, otherwise a
\* tacho motor.
C27_Step ==
  \A p \in OutPorts :
    ProbeEnds(p) =>
      LET L == OutputPort'[p].Value5Low
      IN  /\ L = CtoV(OutPin5(Prog, p))
          /\ pAnalog'.OutConn[p] = "CONN_OUTPUT_TACHO"
          /\ pAnalog'.OutDcm[p] =
               IF L < OUT5_MINITACHO_LOW1 THEN "TYPE_NEWTACHO"
               ELSE IF L < OUT5_MINITACHO_HIGH1 THEN "TYPE_MINITACHO"
               ELSE "TYPE_TACHO"

C27_ProbeRule7 == [][C27_Step]_vars


\* C28: in the equal-snapshot ladder of an output port the Error rules come
\* first (balance band with pin 6 low, below OUT5_NEAR_GND, light band, IIC
\* band): a floating snapshot one of them takes is declared Error / Error with
\* the stored code left alone, whatever the later bands say; a snapshot none
\* of them takes that lies in the dumb band is declared Unknown / OutputDumb
\* with the snapshot stored as the code.
C28_Step ==
  \A p \in OutPorts :
    LET F == OutputPort[p].Value5Float
    IN  OutEqualTick(p) =>
          /\ OutErrorBand(p) =>
               /\ pAnalog'.OutDcm[p] = "TYPE_ERROR"
               /\ pAnalog'.OutConn[p] = "CONN_ERROR"
               /\ pAnalog'.OutPin5Low[p] = pAnalog.OutPin5Low[p]
               /\ OutputPort'[p].Connected = 1
               /\ OutputPort'[p].State = "DCM_CONNECTED_WAITING_FOR_PORT_OPEN"
          /\ (~OutErrorBand(p) /\ F >= OUT5_DUMP_LOW /\ F < OUT5_DUMP_HIGH) =>
               /\ pAnalog'.OutDcm[p] = "TYPE_UNKNOWN"
               /\ pAnalog'.OutConn[p] = "CONN_OUTPUT_DUMB"
               /\ pAnalog'.OutPin5Low[p] = F
               /\ OutputPort'[p].Connected = 1
               /\ OutputPort'[p].State = "DCM_CONNECTED_WAITING_FOR_PORT_OPEN"

C28_ErrorRulesFirst == [][C28_Step]_vars

\* a port with equal snapshots in the dumb band has been declared a dumb
\* output device with the snapshot as its code
C28_Witness ==
  /\ hist.drawn = "DCM_CONNECTION_OUT"
  /\ Value5Equal(OutputPort[0].Value5Float, OutputPort[0].Value5Low)
  /\ OutputPort[0].Value5Float # OutputPort[0].Value5Low
  /\ OutputPort[0].Connected = 1
  /\ pAnalog.OutConn[0] = "CONN_OUTPUT_DUMB"
  /\ pAnalog.OutDcm[0] = "TYPE_UNKNOWN"
  /\ pAnalog.OutPin5Low[0] = OutputPort[0].Value5Float

\* a port with equal snapshots in the light band has been declared Error
C28_ErrorWitness ==
  /\ hist.drawn = "DCM_CONNECTION_OUT"
  /\ OutputPort[0].Value5Float >= OUT5_LIGHT_LOW
  /\ OutputPort[0].Value5Float <= OUT5_LIGHT_HIGH
  /\ Value5Equal(OutputPort[0].Value5Float, OutputPort[0].Value5Low)
  /\ OutputPort[0].Connected = 1
  /\ pAnalog.OutConn[0] = "CONN_ERROR"


\* the DCM tick runs Pin1Loaded on input port p
Pin1LoadedTick(p) ==
  TickStep /\ Swept(Prog, p) /\ InputPort[p].State = "DCM_PIN1_LOADED"

\* C29: Pin1Loaded classifies by the pin 1 reading: higher than IN1_NEAR_PIN2
\* is Error / Error, otherwise lower than IN1_NEAR_GND is Unknown / InputUart,
\* otherwise Unknown / InputDumb; the same tick declares the port Connected
\* and moves it, with the timer at zero, to the wait for pin 1 to float.
C29_Step ==
  \A p \in InPorts :
    Pin1LoadedTick(p) =>
      /\ << pAnalog'.InDcm[p], pAnalog'.InConn[p] >> =
           IF InPin1(p) > VtoC(IN1_NEAR_PIN2) THEN << "TYPE_ERROR", "CONN_ERROR" >>
           ELSE IF InPin1(p) < VtoC(IN1_NEAR_GND)
           THEN << "TYPE_UNKNOWN", "CONN_INPUT_UART" >>
           ELSE << "TYPE_UNKNOWN", "CONN_INPUT_DUMB" >>
      /\ InputPort'[p].Connected = 1
      /\ InputPort'[p].Timer = 0
      /\ InputPort'[p].State = "DCM_CONNECTED_WAITING_FOR_PIN1_TO_FLOAT"

C29_Pin1LoadedLadder == [][C29_Step]_vars


\* Pin1Loaded has declared a port whose pin 1 reads exactly IN1_NEAR_PIN2 a
\* dumb input device and moved it to the wait for pin 1 to float
C29_Witness ==
  /\ hist.drawn = "DCM_CONNECTION"
  /\ InPin1(0) = VtoC(IN1_NEAR_PIN2)
  /\ InputPort[0].State = "DCM_CONNECTED_WAITING_FOR_PIN1_TO_FLOAT"
  /\ InputPort[0].Connected = 1
  /\ InputPort[0].Timer = 0
  /\ pAnalog.InDcm[0] = "TYPE_UNKNOWN"
  /\ pAnalog.InConn[0] = "CONN_INPUT_DUMB"


\* the colour interrupt, after the switch on the sub-state of port p, reads or
\* writes NxtColorBuffer[p][NxtColorBytePnt[p]]: it stores a received byte on
\* the last falling edge or loads the byte to transmit
IndexesBuffer(p) ==
  LET c == NxtColorSwitch(Prog, p).NxtColor[p]
  IN  /\ NxtColor[p].State # 0
      /\ \/ c.BitCnt = 1 /\ c.ClkHigh # 0 /\ c.Tx = 0
         \/ c.BitCnt = 0 /\ c.ByteCnt # 0 /\ c.Tx # 0

\* the sub-states the engine can be in after one interrupt
NextPhases(State) ==
  CASE State = 0 -> {0}
    [] State = 1 -> {2}
    [] State = 2 -> {3, 4}
    [] State = 3 -> {1, 4}
    [] State = 4 -> {4, 5}
    [] State = 5 -> {6}
    [] State = 6 -> {6, 7}
    [] State = 7 -> {7, 8}
    [] OTHER -> {0}

\* the bytes of a transfer accounted for: moved, being clocked, still to come
Accounted(c) == c.BytePnt + c.ByteCnt + (IF c.BitCnt # 0 THEN 1 ELSE 0)

\* C30 (phases): the engine of a port is in a sub-state 0..8; up to the load
\* of the command it clocks nothing; while it transmits, exactly one byte, the
\* one at index 0, has been taken; while it receives, the bytes stored, the one
\* being clocked and those to come add up to NXTCOLOR_BYTES, and the bytes
\* stored so far are the bytes the sensor sent, in arrival order from index 0;
\* when the transfer is over all NXTCOLOR_BYTES bytes are stored.
C30_Phases ==
  \A p \in InPorts :
    LET c == NxtColor[p]
    IN  /\ c.State \in 0 .. 8
        /\ c.State \in 1 .. 5 => c.BitCnt = 0 /\ c.ByteCnt = 0 /\ c.BytePnt = 0
        /\ c.State = 6 => /\ c.Tx = 1 /\ c.ByteCnt = 0 /\ c.BytePnt = 1
                          /\ NxtColorBuffer[p][0] = c.Cmd
        /\ c.State = 7 => /\ c.Tx = 0
                          /\ Accounted(c) = NXTCOLOR_BYTES
                          /\ \A i \in BufIdx :
                               i < c.BytePnt => NxtColorBuffer[p][i] = SensorByte(p, i)
        /\ c.State = 8 => /\ c.BitCnt = 0 /\ c.ByteCnt = 0 /\ c.BytePnt = NXTCOLOR_BYTES
                          /\ \A i \in BufIdx : NxtColorBuffer[p][i] = SensorByte(p, i)

\* C30 (steps): an interrupt moves the engine of a port to a next sub-state
\* of the sequence reset, init delay, command, payload, idle, and back to
\* ready only from the idle sub-state; it indexes the buffer at 0 ..
\* NXTCOLOR_BYTES - 1 only, and it changes the buffer only by the command at
\* index 0 or by a received byte at the index that then moves up by one.
C30_Step ==
  ColStep =>
    \A p \in InPorts :
      LET c == NxtColor[p]
      IN  /\ NxtColor'[p].State \in NextPhases(c.State)
          /\ (c.State # 0 /\ NxtColor'[p].State = 0) => c.State = 8
          /\ IndexesBuffer(p) => NxtColorSwitch(Prog, p).NxtColor[p].BytePnt \in BufIdx
          /\ NxtColorBuffer'[p] # NxtColorBuffer[p] =>
               \/ /\ c.State = 5
                  /\ NxtColorBuffer'[p] = [NxtColorBuffer[p] EXCEPT ![0] = c.Cmd]
               \/ /\ c.State \in {6, 7} /\ NxtColor'[p].State = 7
                  /\ NxtColor'[p].BytePnt - 1 \in BufIdx
                  /\ NxtColorBuffer'[p] =
                       [NxtColorBuffer[p] EXCEPT
                          ![NxtColor'[p].BytePnt - 1] = NxtColor'[p].Byte]

C30_SessionPhases == [][C30_Step]_vars /\ []C30_Phases

\* a session has run to completion: the engine is back at ready from the idle
\* sub-state with the whole payload in the buffer
C30_Witness ==
  \E p \in InPorts :
    /\ NxtColor[p].State = 0
    /\ NxtColor[p].BytePnt = NXTCOLOR_BYTES
    /\ p \in NxtColorInitInUse
    /\ \A i \in BufIdx : NxtColorBuffer[p][i] = SensorByte(p, i)

\* C31: in every colour session, also one started after an earlier session on
\* the port completed or was stopped, the engine leaves the init delay
\* (case 4) for the command byte (case 5) only on the 500th colour tick in a
\* row that held pin 5 low, whatever pin 5 read during the reset pulses
LeavesInitDelay(p) ==
  /\ ColStep
  /\ NxtColor[p].State = 4
  /\ NxtColor'[p].State = 5

C31_Step ==
  \A p \in InPorts : LeavesInitDelay(p) => hist.low[p] + 1 = InitDelayTicks

C31_FullInitDelay == [][C31_Step]_vars


\* C32: in every colour session, also one started after an earlier session
\* was stopped in the middle of a bit, when the engine ends the command
\* phase (case 6 to case 7) exactly 8 bits have been placed on pin 6 at
\* rising clock edges and, read least significant first, they are the
\* command code
EndsCommand(p) ==
  /\ ColStep
  /\ NxtColor[p].State = 6
  /\ NxtColor'[p].State = 7

C32_Step ==
  \A p \in InPorts :
     EndsCommand(p) => hist.wire[p] = [n |-> CommandBits, v |-> NxtColor[p].Cmd]

C32_CommandOnWire == [][C32_Step]_vars


\* an ADC interrupt that ends a pass
PassEnds == AdcStep /\ NxtPointer' = 0

\* the port's ring has taken one more sample: the slot LogIn named is the
\* latest one and LogIn has moved on
Appended(p) ==
  /\ pAnalog'.Actual[p] = pAnalog.LogIn[p]
  /\ pAnalog'.LogIn[p] = NextLog(pAnalog.LogIn[p])

\* C33 (as stated): at the end of every pass every input port is marked
\* updated, the ring of every port on which no colour session runs takes one
\* more sample and the ring of a port on which a session runs is unchanged.
C33_Stated ==
  PassEnds =>
    \A p \in InPorts :
       /\ pAnalog'.Updated[p] = 1
       /\ IF SessionRuns(p) THEN Ring(pAnalog', p) = Ring(pAnalog, p) ELSE Appended(p)

C33_RingsOfIdlePorts == [][C33_Stated]_vars

\* C33 (amended): at the end of every pass, of either schedule, every input
\* port is marked updated, the ring of every port not marked colour-active
\* (NxtColorActive = 0) takes one more sample and the ring of a marked port
\* is unchanged; the mark, not a running session, decides: the ring of a port
\* whose session runs unmarked is rotated.
C33_Step ==
  PassEnds =>
    \A p \in InPorts :
       /\ pAnalog'.Updated[p] = 1
       /\ IF NxtColorActive[p] # 0
          THEN Ring(pAnalog', p) = Ring(pAnalog, p)
          ELSE Appended(p)

C33_RingsOfUnmarkedPorts == [][C33_Step]_vars

\* a pass of the colour-aware schedule has just ended with port 0 marked and
\* its ring behind the ring of port 3, which was rotated
C33_Witness ==
  /\ NxtPointer = 0 /\ hist.scheme = 1
  /\ NxtColorActive[0] # 0
  /\ pAnalog.LogIn[0] # pAnalog.LogIn[3]
  /\ pAnalog.Actual[3] = pAnalog.LogIn[3] - 1
  /\ \A p \in InPorts : pAnalog.Updated[p] = 1


\* C34: while the colour engine of a port runs (engine state non-zero) the
\* port's colour command and the command the ADC scheduler has latched for
\* it are both cleared, so the colour-clock slots of the scheduler do not
\* apply to the port, and no ADC interrupt changes the drive of its pin 5.
C34_Cleared ==
  \A p \in InPorts :
     NxtColor[p].State # 0 => (NxtcolorCmd[p] = 0 /\ NxtcolorLatchedCmd[p] = 0)

C34_Step ==
  \A p \in InPorts :
     (AdcStep /\ NxtColor[p].State # 0) =>
        InputPortPin'[p].Pin5 = InputPortPin[p].Pin5

C34_Pin5Exclusion == [][C34_Step]_vars /\ []C34_Cleared

\* the engine of port 0 transfers while the port is still marked for the
\* scheduler from its earlier session and a pass of the colour-aware
\* schedule, with port 0 as the colour port, is under way
C34_Witness ==
  /\ NxtColor[0].State >= 6
  /\ Nxtcolor[0] # 0
  /\ Color = 1 /\ InputPoint2 = 0 /\ NxtPointer # 0


\* the DCM states before a connection event
IdleStates == {"DCM_INIT", "DCM_FLOATING_DELAY", "DCM_FLOATING"}

\* C35: whenever the DCM state of an input or output port is Init,
\* FloatingDelay or Floating, the port's Connected flag is 0, after any
\* sequence of DCM ticks, enable / disable commands and test-mode switches.
C35_IdleNotConnected ==
  /\ \A p \in InPorts : InputPort[p].State \in IdleStates => InputPort[p].Connected = 0
  /\ \A p \in OutPorts : OutputPort[p].State \in IdleStates => OutputPort[p].Connected = 0


\* colour ticks the clock part still needs to shift out or in what is left of
\* the current byte and the bytes still to come: two ticks a bit (one if the
\* clock is high already) and one tick to load each further byte
ClockLeft(c) ==
  (IF c.BitCnt # 0 THEN 2 * c.BitCnt - c.ClkHigh ELSE 0) + (2 * 8 + 1) * c.ByteCnt

\* colour ticks of the init delay still to come
DelayLeft(c) ==
  LET t == (c.InitTimer + 1) % 65536
  IN  IF t >= InitDelayTicks THEN 1 ELSE InitDelayTicks - t + 1

\* ticks of the payload phase and the end, of the command phase, of case 5
RxTicks == (2 * 8 + 1) * NXTCOLOR_BYTES + 2
TxTicks == (2 * 8 + 1) + 1

\* an upper limit of the colour ticks a session still takes to reach
\* state 0, from the engine state alone
TicksLeft(c) ==
  CASE c.State = 0 -> 0
    [] c.State \in 1 .. 3 ->
         (3 * (2 - c.InitCnt) - (c.State - 1)) + InitDelayTicks + TxTicks + RxTicks
    [] c.State = 4 -> DelayLeft(c) + TxTicks + RxTicks
    [] c.State = 5 -> TxTicks + RxTicks
    [] c.State = 6 -> ClockLeft(c) + 1 + RxTicks
    [] c.State = 7 -> ClockLeft(c) + 2
    [] OTHER -> 1

MaxSessionTicks == 6 + InitDelayTicks + TxTicks + RxTicks

\* C36: a session that is not stopped ends after a bounded number of colour
\* ticks, whatever the pins read: the ticks still needed, counted from the
\* engine state alone (at most two reset pulses, the rest of the init delay,
\* the bits and bytes left), are at most MaxSessionTicks, are 0 only when the
\* engine is ready, and every colour tick of a running engine lowers them.
C36_Bounded ==
  \A p \in InPorts :
     /\ TicksLeft(NxtColor[p]) \in 0 .. MaxSessionTicks
     /\ (TicksLeft(NxtColor[p]) = 0) <=> (NxtColor[p].State = 0)

C36_Step ==
  \A p \in InPorts :
     (ColStep /\ NxtColor[p].State # 0) =>
        TicksLeft(NxtColor'[p]) < TicksLeft(NxtColor[p])

C36_SessionEnds == [][C36_Step]_vars /\ []C36_Bounded

\* the second session of a port whose pin 5 reads low is about to end
C36_Witness ==
  /\ NxtColor[RestartPort].State = 8
  /\ budget.cmd = 0
  /\ envIn[RestartPort].pin5 = 0


InColorWait(p) == InputPort[p].State = "DCM_NXT_COLOR_WAIT"
InColorBusy(p) == InputPort[p].State = "DCM_NXT_COLOR_BUSY"

\* C37: a port in ColorWait starts its session and moves to ColorBusy while
\* the ADC scheduler keeps completing passes and the DCM keeps ticking:
\*   the cleared command of the port is latched within 4 passes (the passes
\*     completed since the port entered ColorWait are the samples the ring of
\*     port 3 has taken), and stays latched;
\*   a DCM tick leaves a port in ColorWait untouched until the latched command
\*     equals the command, and then starts the session and moves the port to
\*     ColorBusy: no timeout, no other way out;
\*   so ColorWait leads to ColorBusy.
C37_Latched ==
  \A p \in InPorts :
     (InColorWait(p) /\ NxtcolorLatchedCmd[p] # NxtcolorCmd[p]) =>
        pAnalog.LogIn[3] < INPUTS

C37_Step ==
  \A p \in InPorts :
     /\ (TickStep /\ InColorWait(p)) =>
          IF NxtcolorLatchedCmd[p] = NxtcolorCmd[p]
          THEN InColorBusy(p)' /\ NxtColor'[p].State = 1
          ELSE InputPort'[p] = InputPort[p] /\ NxtColor'[p] = NxtColor[p]
     /\ (InColorWait(p) /\ NxtcolorLatchedCmd[p] = NxtcolorCmd[p]) =>
          NxtcolorLatchedCmd'[p] = NxtcolorCmd'[p]

C37_WaitStartsSession ==
  /\ [][C37_Step]_vars
  /\ []C37_Latched
  /\ \A p \in InPorts : InColorWait(p) ~> InColorBusy(p)

\* port 0 is still in ColorWait after three passes: the fourth pass, whose
\* colour port it is, is under way
C37_Witness ==
  /\ InColorWait(WaitPort)
  /\ NxtcolorLatchedCmd[WaitPort] # NxtcolorCmd[WaitPort]
  /\ pAnalog.LogIn[3] = INPUTS - 1
  /\ InputPoint2 = WaitPort /\ NxtPointer # 0


\* the length of the schedule the flag names, and its table of waits
SchemeSize(c) == IF c = 0 THEN SCHEMESIZE1 ELSE SCHEMESIZE2
SchemeNextTime(c) == IF c = 0 THEN NextTime1 ELSE NextTime2
SchemeTime(c) == IF c = 0 THEN Time1 ELSE Time2

\* C38: in every reachable state the schedule pointer is below the size of
\* the active schedule (10 or 15), the rotating slot index is within 8..15
\* and the colour port index within 0..3; every ADC interrupt ends its entry
\* loop at an entry with a non-zero wait, whose delay it programs.
C38_InRange ==
  /\ Color \in {0, 1}
  /\ NxtPointer \in 0 .. (SchemeSize(Color) - 1)
  /\ InputPoint1 \in 8 .. (INPUTADC - 1)
  /\ InputPoint2 \in 0 .. (INPUTS - 1)

C38_Step ==
  AdcStep =>
    LET last == IF NxtPointer' = 0 THEN SchemeSize(Color) ELSE NxtPointer'
    IN  /\ last > NxtPointer
        /\ SchemeNextTime(Color)[last] # 0
        /\ \A i \in (NxtPointer + 1) .. (last - 1) : SchemeNextTime(Color)[i] = 0
        /\ NextTime' = SchemeTime(Color)[SchemeNextTime(Color)[last]]

C38_PointersInRange == [][C38_Step]_vars /\ []C38_InRange

\* a pass of the colour-aware schedule beyond the length of the plain one,
\* with the rotating slot at its last index and the last colour port
C38_Witness ==
  /\ Color = 1 /\ NxtPointer > SCHEMESIZE1
  /\ InputPoint1 = INPUTADC - 1
  /\ InputPoint2 = INPUTS - 1


\* DCM ticks that still go by before a tick evaluates the ports: one to leave
\* case 0 (in normal mode), one for case 1, and the reset delay of case 2
ResetLeft(state, timer) ==
  CASE state = 0 -> DeviceResetTicks + 2
    [] state = 1 -> DeviceResetTicks + 1
    [] state = 2 -> DeviceResetTicks - timer
    [] OTHER -> 0

\* what the evaluation of a port reads and writes
PortsState == << InputPort, OutputPort, pAnalog, InputPortPin, OutputPortPin >>

\* C39: after start-up (sequencer in case 0) and after every switch back from
\* test mode to normal mode every port is in Init and the full reset delay
\* lies ahead; a DCM tick takes at most one tick off the delay and evaluates
\* no port while any of it is left; no command shortens it; in test mode the
\* sequencer rests in case 0, so a switch to test mode during the delay keeps
\* detection halted.
C39_Step ==
  /\ TestMode = 1 => Device3State = 0
  /\ ResetLeft(Device3State, Device3StateTimer) \in 0 .. (DeviceResetTicks + 2)
  /\ (CmdStep /\ TestMode' = 0 /\ Device3State' = 0 /\ (TestMode = 1 \/ Device3State # 0)) =>
       /\ \A p \in InPorts : InputPort'[p].State = "DCM_INIT"
       /\ \A p \in OutPorts : OutputPort'[p].State = "DCM_INIT"
  /\ CmdStep =>
       ResetLeft(Device3State', Device3StateTimer') >= ResetLeft(Device3State, Device3StateTimer)
  /\ (TickStep /\ ~CmdStep) =>
       /\ ResetLeft(Device3State', Device3StateTimer')
            >= ResetLeft(Device3State, Device3StateTimer) - 1
       /\ ResetLeft(Device3State, Device3StateTimer) > 0 => PortsState' = PortsState
       /\ TestMode = 1 => (Device3State' = 0 /\ TestMode' = 1)

C39_ResetDelay == [][C39_Step]_vars

\* switched to test mode and back: the reset delay has just elapsed and no
\* port has been evaluated yet
C39_Witness ==
  /\ budget.cmd = 0
  /\ Device3State = 3 /\ Device3StateTimer = DeviceResetTicks
  /\ \A p \in InPorts : InputPort[p].State = "DCM_INIT"
  /\ \A p \in OutPorts : OutputPort[p].State = "DCM_INIT"


LogIdx == 0 .. (DEVICE_LOGBUF_SIZE - 1)

\* C40: the three indexes of every sample ring are below the depth, in any
\* interleaving of the rotations with the reset of the indexes in Connection;
\* after every end-of-pass rotation of a port's ring Actual names the slot
\* just written (the one LogIn named), LogIn is that slot plus one modulo the
\* depth and differs from LogOut: a full ring drops its oldest sample, LogOut
\* moving on by one, and LogOut moves in no other case.
C40_InRange ==
  \A p \in InPorts :
     /\ pAnalog.LogIn[p] \in LogIdx
     /\ pAnalog.LogOut[p] \in LogIdx
     /\ pAnalog.Actual[p] \in LogIdx

C40_Step ==
  \A p \in InPorts :
     (PassEnds /\ NxtColorActive[p] = 0) =>
        /\ pAnalog'.Actual[p] = pAnalog.LogIn[p]
        /\ pAnalog'.LogIn[p] = (pAnalog'.Actual[p] + 1) % DEVICE_LOGBUF_SIZE
        /\ pAnalog'.LogIn[p] # pAnalog'.LogOut[p]
        /\ pAnalog'.LogOut[p] =
             IF pAnalog'.LogIn[p] = pAnalog.LogOut[p]
             THEN (pAnalog.LogOut[p] + 1) % DEVICE_LOGBUF_SIZE
             ELSE pAnalog.LogOut[p]

C40_RingIndexes == [][C40_Step]_vars /\ []C40_InRange

\* the ring of the dumb sensor's port, reset in Connection, has taken samples
\* again without being full, while the ring of port 3 is full and drops its
\* oldest sample at every rotation
C40_Witness ==
  /\ pAnalog.LogOut[DumbPort] = 0
  /\ pAnalog.LogIn[DumbPort] > 1
  /\ pAnalog.Actual[DumbPort] = pAnalog.LogIn[DumbPort] - 1
  /\ pAnalog.LogOut[3] = (pAnalog.LogIn[3] + 1) % DEVICE_LOGBUF_SIZE
  /\ pAnalog.LogIn[3] > pAnalog.LogIn[DumbPort]

=============================================================================
